---- MODULE Spec2Model ----
(***************************************************************************)
(* Model of the optimistic-concurrency write protocol of spool             *)
(* (src/src/concurrency.rs): the advisory lock file, the version lookup,   *)
(* the fingerprint of the last event of an id, the version check of        *)
(* write_event_with_version and the retry wrapper write_with_retry.        *)
(* It also models the replay engine (crates/spool/src/state.rs: apply_event *)
(* and materialize over the archive and daily files) and the archival      *)
(* (src/src/archive.rs: archive_tasks).                                    *)
(*                                                                         *)
(* Text is modelled as sequences of byte values, so that serialising an    *)
(* event, fingerprinting it, formatting the lock file and parsing it back  *)
(* are computed the way the code computes them.  Time is the number of     *)
(* seconds since 1970-01-01T00:00:00Z; the model runs across the midnight  *)
(* that ends the first day, so two daily files can exist.                  *)
(*                                                                         *)
(* Not modelled: Version.seq (a process-local counter that no comparison   *)
(* reads), and sub-second timestamps.                                      *)
(***************************************************************************)
EXTENDS Integers, Sequences, FiniteSets, TLC

(***************************************************************************)
(* Bounds of the model.                                                    *)
(***************************************************************************)
NumProcs == 2
MaxLog == 4
MaxTicks == 2
MaxRetries == 1

(***************************************************************************)
(* Program constants.                                                      *)
(***************************************************************************)
StaleSecs == 60
InitialDelayMs == 10
SecsPerDay == 86400
LimbBase == 2^16

(***************************************************************************)
(* The clock of the model: it moves in steps as long as the age at which   *)
(* a lock counts as stale, and starts one step before midnight.            *)
(***************************************************************************)
TickSecs == StaleSecs
StartClock == SecsPerDay - TickSecs

Procs == 1..NumProcs
Ids == {"t1", "t2"}
Ops == {"create", "update"}
Titles == {"Aaz!", "BDC~"}

(* what the callers of the model ask to write: a create, or an update with *)
(* either title                                                            *)
Requests == {[op |-> "create", title |-> "Aaz!"]}
            \cup {[op |-> "update", title |-> t] : t \in Titles}

(***************************************************************************)
(* Bytes.                                                                  *)
(***************************************************************************)
Colon == 58
Newline == 10
Whitespace == {9, 10, 11, 12, 13, 32}
Digit(n) == 48 + n
IsDigit(b) == b >= 48 /\ b <= 57
TwoDigits(n) == <<Digit(n \div 10), Digit(n % 10)>>

RECURSIVE Decimal(_)
Decimal(n) == IF n < 10 THEN <<Digit(n)>> ELSE Decimal(n \div 10) \o <<Digit(n % 10)>>

OpBytes(op) ==
    IF op = "create" THEN <<99, 114, 101, 97, 116, 101>>
    ELSE <<117, 112, 100, 97, 116, 101>>

IdBytes(id) ==
    IF id = "t1" THEN <<116, 49>> ELSE <<116, 50>>

TitleBytes(t) ==
    IF t = "Aaz!" THEN <<65, 97, 122, 33>> ELSE <<66, 68, 67, 126>>

(* the lengths of the first months of 1970 *)
MonthLengths == <<31, 28, 31, 30>>

(* format("%Y-%m"): the month a time falls in, counted from January 1970 *)
RECURSIVE MonthFrom(_, _)
MonthFrom(day, m) ==
    IF m = Len(MonthLengths) \/ day < MonthLengths[m] THEN m
    ELSE MonthFrom(day - MonthLengths[m], m + 1)

MonthOf(ts) == MonthFrom(ts \div SecsPerDay, 1)

(* the days of the year before month m *)
RECURSIVE DaysBefore(_)
DaysBefore(m) == IF m = 1 THEN 0 ELSE DaysBefore(m - 1) + MonthLengths[m - 1]

(* "1970-MM-DDTHH:MM:SS" for a time of the first months of the epoch *)
DateTimeBytes(ts) ==
    LET day == ts \div SecsPerDay
        sec == ts % SecsPerDay
        month == MonthOf(ts)
    IN  <<49, 57, 55, 48, 45>> \o TwoDigits(month) \o <<45>>
        \o TwoDigits(day - DaysBefore(month) + 1) \o <<84>>
        \o TwoDigits(sec \div 3600) \o <<Colon>>
        \o TwoDigits((sec % 3600) \div 60) \o <<Colon>>
        \o TwoDigits(sec % 60)

(* serde's form of a DateTime<Utc>: "...Z" *)
TsJson(ts) == DateTimeBytes(ts) \o <<90>>

(* DateTime<Utc>::to_rfc3339: "...+00:00" *)
to_rfc3339(ts) == DateTimeBytes(ts) \o <<43, 48, 48, Colon, 48, 48>>

(* serde_json::to_string(&Event): keys in declaration order *)
to_string(e) ==
    <<123, 34, 118, 34, 58, 49, 44, 34, 111, 112, 34, 58, 34>> \o OpBytes(e.op)
    \o <<34, 44, 34, 105, 100, 34, 58, 34>> \o IdBytes(e.id)
    \o <<34, 44, 34, 116, 115, 34, 58, 34>> \o TsJson(e.ts)
    \o <<34, 44, 34, 98, 121, 34, 58, 34, 64, 97, 34, 44, 34, 98, 114, 97,
         110, 99, 104, 34, 58, 34, 109, 97, 105, 110, 34, 44, 34, 100, 34, 58>>
    \o <<123, 34, 116, 105, 116, 108, 101, 34, 58, 34>> \o TitleBytes(e.d.title)
    \o <<34, 125, 125>>

(***************************************************************************)
(* md5_hash: u128 arithmetic on eight limbs of 16 bits, least              *)
(* significant first; a carry out of the last limb is dropped (wrapping).  *)
(***************************************************************************)
ZeroHash == <<0, 0, 0, 0, 0, 0, 0, 0>>

(* h * m + c on limbs, the carry rippling from the least significant limb *)
MulAdd(h, m, c) ==
    LET s1 == h[1] * m + c
        s2 == h[2] * m + (s1 \div LimbBase)
        s3 == h[3] * m + (s2 \div LimbBase)
        s4 == h[4] * m + (s3 \div LimbBase)
        s5 == h[5] * m + (s4 \div LimbBase)
        s6 == h[6] * m + (s5 \div LimbBase)
        s7 == h[7] * m + (s6 \div LimbBase)
        s8 == h[8] * m + (s7 \div LimbBase)
    IN  <<s1 % LimbBase, s2 % LimbBase, s3 % LimbBase, s4 % LimbBase,
          s5 % LimbBase, s6 % LimbBase, s7 % LimbBase, s8 % LimbBase>>

wrapping_add(h, k) == MulAdd(h, 1, k)
wrapping_mul(h, m) == MulAdd(h, m, 0)

(* one turn of the loop of md5_hash, for the byte at index i (from 0) *)
HashStep(h, byte, i) == wrapping_mul(wrapping_add(h, byte * (i + 1)), 31)

(* the loop of md5_hash over the bytes from index i on *)
RECURSIVE HashFrom(_, _, _)
HashFrom(bytes, i, h) ==
    IF i < Len(bytes) /\ h \in Seq(Nat)
    THEN HashFrom(bytes, i + 1, HashStep(h, bytes[i + 1], i))
    ELSE h

md5_hash(bytes) == HashFrom(bytes, 0, ZeroHash)

(***************************************************************************)
(* The lock file: "{pid}:{rfc3339 time}\n", and what acquire reads back    *)
(* from it.                                                                *)
(***************************************************************************)
None == [none |-> TRUE]

LockContent(pid, t) == Decimal(pid) \o <<Colon>> \o to_rfc3339(t) \o <<Newline>>

(* str::split(sep): the pieces between the separators, from index i on *)
RECURSIVE SplitFrom(_, _, _, _)
SplitFrom(s, sep, i, piece) ==
    IF i > Len(s) THEN <<piece>>
    ELSE IF s[i] = sep THEN <<piece>> \o SplitFrom(s, sep, i + 1, <<>>)
    ELSE SplitFrom(s, sep, i + 1, Append(piece, s[i]))

split(s, sep) == SplitFrom(s, sep, 1, <<>>)

(* Iterator::nth, counting from 0 *)
nth(pieces, n) == IF n < Len(pieces) THEN pieces[n + 1] ELSE None

RECURSIVE trim_start(_)
trim_start(s) ==
    IF s # <<>> /\ Head(s) \in Whitespace THEN trim_start(Tail(s)) ELSE s

RECURSIVE trim_end(_)
trim_end(s) ==
    IF s # <<>> /\ s[Len(s)] \in Whitespace
    THEN trim_end(SubSeq(s, 1, Len(s) - 1)) ELSE s

trim(s) == trim_end(trim_start(s))

TwoDigitValue(s, i) == (s[i] - 48) * 10 + (s[i + 1] - 48)

(* DateTime::parse_from_rfc3339 for the times the model can write: a full  *)
(* "1970-MM-DDTHH:MM:SS" of a day of one of the first months, followed by  *)
(* "Z" or "+00:00", gives Ok(seconds); anything shorter or of another      *)
(* shape is a parse error.                                                 *)
parse_from_rfc3339(s) ==
    IF /\ Len(s) \in {20, 25}
       /\ SubSeq(s, 1, 5) = <<49, 57, 55, 48, 45>>
       /\ \A i \in {6, 7, 9, 10, 12, 13, 15, 16, 18, 19} : IsDigit(s[i])
       /\ s[8] = 45 /\ s[11] = 84 /\ s[14] = Colon /\ s[17] = Colon
       /\ TwoDigitValue(s, 6) \in DOMAIN MonthLengths
       /\ TwoDigitValue(s, 9) \in 1..MonthLengths[TwoDigitValue(s, 6)]
       /\ \/ Len(s) = 20 /\ s[20] = 90
          \/ Len(s) = 25 /\ SubSeq(s, 20, 25) = <<43, 48, 48, Colon, 48, 48>>
    THEN [ok |-> TRUE,
          secs |-> (DaysBefore(TwoDigitValue(s, 6)) + TwoDigitValue(s, 9) - 1) * SecsPerDay
                   + TwoDigitValue(s, 12) * 3600
                   + TwoDigitValue(s, 15) * 60 + TwoDigitValue(s, 18)]
    ELSE [ok |-> FALSE, secs |-> 0]

(* a reader that takes everything after the first colon as the time *)
RestAfterFirstColon(content) ==
    LET first == CHOOSE i \in 1..(Len(content) + 1) :
                     /\ i = Len(content) + 1 \/ content[i] = Colon
                     /\ \A j \in 1..(i - 1) : content[j] # Colon
    IN  IF first > Len(content) THEN None
        ELSE SubSeq(content, first + 1, Len(content))

(* content.split(':').nth(1) *)
LockTimestampField(content) == nth(split(content, Colon), 1)

(* lines 65-69: the lock file could be read, its second field parses as a  *)
(* time, and that time is more than StaleSecs before t                     *)
IsStale(content, t) ==
    LET ts_str == LockTimestampField(content)
    IN  /\ ts_str # None
        /\ LET ts == parse_from_rfc3339(trim(ts_str))
           IN  ts.ok /\ t - ts.secs > StaleSecs

(***************************************************************************)
(* The store, the clock and the processes.                                 *)
(*   events    daily files: day number |-> the events of that file, in     *)
(*             line order (the file of day n is named by the date of day   *)
(*             n, so file-name order is day order)                         *)
(*   basis     for each appended line, in append order: who wrote it and   *)
(*             where the expected version of that write came from          *)
(*   lockFile  None, or the .lock file: who created it and its content     *)
(*   now       Utc::now(), in seconds                                      *)
(*   pc        where each process is                                       *)
(*   held      the Version a caller last fetched: for which id, its value, *)
(*             and how many events the log had when it was fetched         *)
(*   ev, expected, expFrom   the arguments of the current call of          *)
(*             write_event_with_version, and where expected came from      *)
(*   res       the outcome of the current call                             *)
(*   mode      "direct": write_event_with_version was called by itself;    *)
(*             "retry": from inside write_with_retry                       *)
(*   fresh     whether the closure of write_with_retry fetches the version *)
(*             anew on each attempt or hands back the one it captured      *)
(*   retries, max_retries, delay_ms   the locals of write_with_retry       *)
(*   attempts, writes, appended   counters of the current call: closure    *)
(*             invocations, writes started, lines appended                 *)
(***************************************************************************)
VARIABLES now, events, basis, lockFile, pc, held, ev, expected, expFrom, res,
          mode, fresh, retries, max_retries, delay_ms, attempts, writes, appended

(***************************************************************************)
(* The replay in progress (materialize):                                   *)
(*   tasks, streams   the two maps being built                             *)
(*   applied          the events applied to them so far, in order          *)
(***************************************************************************)
VARIABLES tasks, streams, applied

(***************************************************************************)
(* The archive and the calls on the store:                                 *)
(*   archive   the monthly files of archive/, by month                     *)
(*   seen      the store contents that tasks and streams were built from   *)
(*   ret       what the last call on the store was and what it returned    *)
(***************************************************************************)
VARIABLES archive, seen, ret

(***************************************************************************)
(* The cache files, None when the file is not there:                       *)
(*   state_json   the content of .state.json                               *)
(*   index_json   the content of .index.json                               *)
(***************************************************************************)
VARIABLES state_json, index_json

cacheVars == <<state_json, index_json>>

projVars == <<tasks, streams, applied, archive, seen, ret, cacheVars>>

storeVars == <<events, basis, lockFile>>
callVars == <<ev, expected, expFrom, mode, fresh, max_retries>>
loopVars == <<retries, delay_ms, attempts>>
vars == <<now, events, basis, lockFile, pc, held, ev, expected, expFrom, res,
          mode, fresh, retries, max_retries, delay_ms, attempts, writes, appended,
          projVars>>

Event(op, id, ts, title) == [op |-> op, id |-> id, ts |-> ts, d |-> [title |-> title]]

(* what a call can come back with: the WriteResult values, and the errors  *)
(* (Err) of the call itself                                                *)
WriteResults == {"Success", "Conflict", "ErrAlreadyExists", "ErrNotExistExpected",
                 "ErrNotExist"}
ErrorValues == {"ErrAlreadyExists", "ErrNotExistExpected", "ErrNotExist"}
Failures == {"FailLockHeld", "FailIO", "FailOperation"}

(* get_event_files: the daily files, sorted by name *)
RECURSIVE SortedSeq(_)
SortedSeq(S) ==
    IF S = {} THEN <<>>
    ELSE LET m == CHOOSE x \in S : \A y \in S : x <= y
         IN  <<m>> \o SortedSeq(S \ {m})

get_event_files(evs) == SortedSeq(DOMAIN evs)

RECURSIVE reverse(_)
reverse(q) == IF q = <<>> THEN <<>> ELSE reverse(Tail(q)) \o <<Head(q)>>

(* the whole log in replay order *)
RECURSIVE Concat(_, _)
Concat(evs, files) ==
    IF files = <<>> THEN <<>> ELSE evs[Head(files)] \o Concat(evs, Tail(files))

Log == Concat(events, get_event_files(events))

(* lines 100-105: the first event of id in a sequence, or None *)
RECURSIVE FirstOf(_, _)
FirstOf(q, id) ==
    IF q = <<>> THEN None
    ELSE IF Head(q).id = id THEN Head(q) ELSE FirstOf(Tail(q), id)

(* lines 98-109: the files latest first, each from its last line back *)
RECURSIVE ScanFiles(_, _, _)
ScanFiles(evs, files, id) ==
    IF files = <<>> THEN None
    ELSE LET found == FirstOf(reverse(evs[Head(files)]), id)
         IN  IF found # None THEN found ELSE ScanFiles(evs, Tail(files), id)

(* the events the model can hold, and the fingerprint of each (lines       *)
(* 113-114), computed once                                                 *)
Events ==
    {Event(op, id, StartClock + k * TickSecs, title) :
        op \in Ops, id \in Ids, k \in 0..MaxTicks, title \in Titles}

EventHash == [e \in Events |-> md5_hash(to_string(e))]

(* a lookup that scans the files oldest first and each file from its first *)
(* line on                                                                 *)
get_task_version_first_event(evs, id) ==
    LET first_event == FirstOf(Concat(evs, get_event_files(evs)), id)
    IN  IF first_event = None THEN None
        ELSE [ts |-> to_rfc3339(first_event.ts),
              last_event_hash |-> md5_hash(to_string(first_event))]

(* lines 111-122 *)
VersionOf(event) ==
    [ts |-> to_rfc3339(event.ts), last_event_hash |-> EventHash[event]]

get_task_version(evs, id) ==
    LET last_event == ScanFiles(evs, reverse(get_event_files(evs)), id)
    IN  IF last_event = None THEN None ELSE VersionOf(last_event)

Today == now \div SecsPerDay

(* today's file is opened for write, not for append: the line replaces its *)
(* content                                                                 *)
TruncateToday(evs, e) == (Today :> <<e>>) @@ evs

(* lines 170-181: open today's file for append, creating it, and write     *)
(* the line                                                                *)
AppendToday(evs, e) ==
    IF Today \in DOMAIN evs
    THEN [evs EXCEPT ![Today] = Append(@, e)]
    ELSE (Today :> <<e>>) @@ evs

InFlight == Cardinality({p \in Procs : pc[p] # "idle"})

(* the store the model starts from: task t1 was created and updated once,  *)
(* just now; t2 does not exist                                             *)
InitialLog == <<Event("create", "t1", StartClock, "Aaz!"),
                Event("update", "t1", StartClock, "Aaz!")>>

(* the events already recorded or being written: a caller never builds a   *)
(* copy of one of them (real timestamps are finer than the model's clock)  *)
Built == {Log[i] : i \in 1..Len(Log)} \cup {ev[q] : q \in {r \in Procs : pc[r] # "idle"}}

(* no replay has started *)
NoCall ==
    [call |-> "none", days |-> 0, dry_run |-> FALSE, ok |-> TRUE, ids |-> <<>>,
     again |-> FALSE, before |-> <<>>]

NoReplay ==
    /\ tasks = <<>>
    /\ streams = <<>>
    /\ applied = <<>>
    /\ archive = <<>>
    /\ seen = <<<<>>, <<>>>>
    /\ ret = NoCall
    /\ state_json = None
    /\ index_json = None

NoVersionHeld == [id |-> "none", v |-> None, at |-> 0]

Init ==
    /\ now = StartClock
    /\ events = (StartClock \div SecsPerDay) :> InitialLog
    /\ basis = [i \in 1..Len(InitialLog) |-> [by |-> 0, from |-> None]]
    /\ lockFile = None
    /\ pc = [p \in Procs |-> "idle"]
    /\ held = [p \in Procs |-> NoVersionHeld]
    /\ ev = [p \in Procs |-> None]
    /\ expected = [p \in Procs |-> None]
    /\ expFrom = [p \in Procs |-> None]
    /\ res = [p \in Procs |-> "none"]
    /\ mode = [p \in Procs |-> "none"]
    /\ fresh = [p \in Procs |-> FALSE]
    /\ retries = [p \in Procs |-> 0]
    /\ max_retries = [p \in Procs |-> 0]
    /\ delay_ms = [p \in Procs |-> InitialDelayMs]
    /\ attempts = [p \in Procs |-> 0]
    /\ writes = [p \in Procs |-> 0]
    /\ appended = [p \in Procs |-> 0]
    /\ NoReplay

(* time passes *)
Tick ==
    /\ now < StartClock + MaxTicks * TickSecs
    /\ now' = now + TickSecs
    /\ UNCHANGED <<storeVars, pc, held, callVars, res, loopVars, writes, appended>>
    /\ UNCHANGED projVars

(* a caller looks up the version of an id (get_task_version) *)
GetVersion(p, id) ==
    /\ pc[p] = "idle"
    /\ held' = [held EXCEPT ![p] =
                  [id |-> id, v |-> get_task_version(events, id), at |-> Len(Log)]]
    /\ UNCHANGED <<now, storeVars, pc, callVars, res, loopVars, writes, appended>>
    /\ UNCHANGED projVars

(* a caller calls write_event_with_version(event, expected_version) with   *)
(* an event it has just built; expected_version is absent or the version   *)
(* it holds                                                                *)
CallWrite(p, req, id, withVersion) ==
    /\ pc[p] = "idle"
    /\ Len(Log) + InFlight < MaxLog
    /\ withVersion => held[p].v # None
    /\ Event(req.op, id, now, req.title) \notin Built
    /\ ev' = [ev EXCEPT ![p] = Event(req.op, id, now, req.title)]
    /\ expected' = [expected EXCEPT ![p] = IF withVersion THEN held[p].v ELSE None]
    /\ expFrom' = [expFrom EXCEPT ![p] =
                     IF withVersion THEN [id |-> held[p].id, at |-> held[p].at] ELSE None]
    /\ held' = [held EXCEPT ![p] = NoVersionHeld]
    /\ mode' = [mode EXCEPT ![p] = "direct"]
    /\ res' = [res EXCEPT ![p] = "pending"]
    /\ writes' = [writes EXCEPT ![p] = 1]
    /\ pc' = [pc EXCEPT ![p] = "acquire"]
    /\ UNCHANGED <<now, storeVars, fresh, max_retries, loopVars, appended>>
    /\ UNCHANGED projVars

(* line 52: create the lock file exclusively *)
Acquire(p) ==
    /\ pc[p] = "acquire"
    /\ IF lockFile = None
       THEN /\ lockFile' = [owner |-> p, content |-> <<>>]
            /\ pc' = [pc EXCEPT ![p] = "lock_write"]
       ELSE /\ pc' = [pc EXCEPT ![p] = "lock_read"]
            /\ UNCHANGED lockFile
    /\ UNCHANGED <<now, events, basis, held, callVars, res, loopVars, writes, appended>>
    /\ UNCHANGED projVars

(* line 57: write "pid:time" into the new lock file; when the write fails  *)
(* acquire returns the error and no FileLock exists to remove the file     *)
LockWrite(p, ok) ==
    /\ pc[p] = "lock_write"
    /\ IF ok
       THEN /\ lockFile' = IF lockFile # None /\ lockFile.owner = p
                           THEN [lockFile EXCEPT !.content = LockContent(p, now)]
                           ELSE lockFile
            /\ pc' = [pc EXCEPT ![p] = "check"]
            /\ UNCHANGED res
       ELSE /\ res' = [res EXCEPT ![p] = "FailIO"]
            /\ pc' = [pc EXCEPT ![p] = "return"]
            /\ UNCHANGED lockFile
    /\ UNCHANGED <<now, events, basis, held, callVars, loopVars, writes, appended>>
    /\ UNCHANGED projVars

(* lines 63-78: the lock file exists; a stale one is removed and acquire   *)
(* starts again, otherwise acquire fails at once                           *)
LockContended(p) ==
    /\ pc[p] = "lock_read"
    /\ IF lockFile # None /\ IsStale(lockFile.content, now)
       THEN /\ lockFile' = None
            /\ pc' = [pc EXCEPT ![p] = "acquire"]
            /\ UNCHANGED res
       ELSE /\ res' = [res EXCEPT ![p] = "FailLockHeld"]
            /\ pc' = [pc EXCEPT ![p] = "return"]
            /\ UNCHANGED lockFile
    /\ UNCHANGED <<now, events, basis, held, callVars, loopVars, writes, appended>>
    /\ UNCHANGED projVars

(* a check that compares whole Versions: the seq of a new lookup never     *)
(* equals the seq of the version the caller holds                          *)
VersionCheckWholeVersion(op, exp, cur) ==
    IF exp # None /\ cur # None THEN "Conflict"
    ELSE IF exp # None /\ cur = None
    THEN IF op # "create" THEN "ErrNotExistExpected" ELSE "proceed"
    ELSE IF exp = None /\ cur # None
    THEN IF op = "create" THEN "ErrAlreadyExists" ELSE "proceed"
    ELSE IF op # "create" THEN "ErrNotExist" ELSE "proceed"

(* a check whose arm for an expected version of a missing id lets every     *)
(* operation through                                                        *)
VersionCheckMissingIdUnchecked(op, exp, cur) ==
    IF exp # None /\ cur # None
    THEN IF exp.last_event_hash # cur.last_event_hash THEN "Conflict" ELSE "proceed"
    ELSE IF exp # None /\ cur = None
    THEN "proceed"
    ELSE IF exp = None /\ cur # None
    THEN IF op = "create" THEN "ErrAlreadyExists" ELSE "proceed"
    ELSE IF op # "create" THEN "ErrNotExist" ELSE "proceed"

(* lines 138-167: the verdict of the version check, "proceed" when the     *)
(* event is to be written                                                  *)
VersionCheck(op, exp, cur) ==
    IF exp # None /\ cur # None
    THEN IF exp.last_event_hash # cur.last_event_hash THEN "Conflict" ELSE "proceed"
    ELSE IF exp # None /\ cur = None
    THEN IF op # "create" THEN "ErrNotExistExpected" ELSE "proceed"
    ELSE IF exp = None /\ cur # None
    THEN IF op = "create" THEN "ErrAlreadyExists" ELSE "proceed"
    ELSE IF op # "create" THEN "ErrNotExist" ELSE "proceed"

(* lines 135-167, under the lock: read the current version and compare;    *)
(* a failed read ends the call with that error                             *)
CheckVersion(p, ok) ==
    /\ pc[p] = "check"
    /\ LET verdict == VersionCheck(ev[p].op, expected[p],
                                   get_task_version(events, ev[p].id))
       IN  IF ~ok
           THEN /\ res' = [res EXCEPT ![p] = "FailIO"]
                /\ pc' = [pc EXCEPT ![p] = "drop"]
           ELSE IF verdict = "proceed"
           THEN /\ pc' = [pc EXCEPT ![p] = "append"]
                /\ UNCHANGED res
           ELSE /\ res' = [res EXCEPT ![p] = verdict]
                /\ pc' = [pc EXCEPT ![p] = "drop"]
    /\ UNCHANGED <<now, storeVars, held, callVars, loopVars, writes, appended>>
    /\ UNCHANGED projVars

(* lines 170-183: append the event to today's file *)
WriteEvent(p, ok) ==
    /\ pc[p] = "append"
    /\ IF ok
       THEN /\ events' = AppendToday(events, ev[p])
            /\ basis' = Append(basis, [by |-> p, from |-> expFrom[p]])
            /\ appended' = [appended EXCEPT ![p] = @ + 1]
            /\ res' = [res EXCEPT ![p] = "Success"]
       ELSE /\ res' = [res EXCEPT ![p] = "FailIO"]
            /\ UNCHANGED <<events, basis, appended>>
    /\ pc' = [pc EXCEPT ![p] = "drop"]
    /\ UNCHANGED <<now, lockFile, held, callVars, loopVars, writes>>
    /\ UNCHANGED projVars

(* a release written as the last statement of the function instead of a    *)
(* Drop: the early returns skip it                                         *)
DropOnSuccessOnly(p) ==
    /\ pc[p] = "drop"
    /\ lockFile' = IF res[p] = "Success" THEN None ELSE lockFile
    /\ pc' = [pc EXCEPT ![p] =
                IF mode[p] = "retry" /\ res[p] \in WriteResults THEN "decide" ELSE "return"]
    /\ UNCHANGED <<now, events, basis, held, callVars, res, loopVars, writes, appended>>
    /\ UNCHANGED projVars

(* lines 84-88: the FileLock goes out of scope: remove the file at the     *)
(* lock path, ignoring a failure; then write_event_with_version has        *)
(* returned, to its caller or into the loop of write_with_retry (which     *)
(* passes an Err on at once, line 200)                                     *)
Drop(p) ==
    /\ pc[p] = "drop"
    /\ lockFile' = None
    /\ pc' = [pc EXCEPT ![p] =
                IF mode[p] = "retry" /\ res[p] \in WriteResults THEN "decide" ELSE "return"]
    /\ UNCHANGED <<now, events, basis, held, callVars, res, loopVars, writes, appended>>
    /\ UNCHANGED projVars

(* a caller calls write_with_retry(max_retries, operation); the closure    *)
(* either captures the version the caller holds or looks it up itself      *)
CallRetry(p, n, req, id, refetch) ==
    /\ pc[p] = "idle"
    /\ Len(Log) + InFlight < MaxLog
    /\ ev' = [ev EXCEPT ![p] = Event(req.op, id, now, req.title)]
    /\ expected' = [expected EXCEPT ![p] = held[p].v]
    /\ expFrom' = [expFrom EXCEPT ![p] =
                     IF held[p].v # None THEN [id |-> held[p].id, at |-> held[p].at]
                     ELSE None]
    /\ held' = [held EXCEPT ![p] = NoVersionHeld]
    /\ mode' = [mode EXCEPT ![p] = "retry"]
    /\ fresh' = [fresh EXCEPT ![p] = refetch]
    /\ max_retries' = [max_retries EXCEPT ![p] = n]
    /\ res' = [res EXCEPT ![p] = "pending"]
    /\ pc' = [pc EXCEPT ![p] = "closure"]
    /\ UNCHANGED <<now, storeVars, loopVars, writes, appended>>
    /\ UNCHANGED projVars

(* lines 199-200: the closure builds the event and the expected version    *)
(* again, and the write is started; a failing closure ends the call        *)
Operation(p, ok) ==
    /\ pc[p] = "closure"
    /\ attempts' = [attempts EXCEPT ![p] = @ + 1]
    /\ IF ok
       THEN /\ ev' = [ev EXCEPT ![p] = [@ EXCEPT !.ts = now]]
            /\ expected' = [expected EXCEPT ![p] =
                              IF fresh[p] THEN get_task_version(events, ev[p].id) ELSE @]
            /\ expFrom' = [expFrom EXCEPT ![p] =
                             IF ~fresh[p] THEN @
                             ELSE IF get_task_version(events, ev[p].id) = None THEN None
                             ELSE [id |-> ev[p].id, at |-> Len(Log)]]
            /\ writes' = [writes EXCEPT ![p] = @ + 1]
            /\ pc' = [pc EXCEPT ![p] = "acquire"]
            /\ UNCHANGED res
       ELSE /\ res' = [res EXCEPT ![p] = "FailOperation"]
            /\ pc' = [pc EXCEPT ![p] = "return"]
            /\ UNCHANGED <<ev, expected, expFrom, writes>>
    /\ UNCHANGED <<now, storeVars, held, mode, fresh, max_retries, retries,
                   delay_ms, appended>>
    /\ UNCHANGED projVars

(* a guard that is off by one *)
RetryOnceMore(result, r, max) == result = "Conflict" /\ r <= max

(* a guard that retries whatever did not succeed *)
RetryOnAnyFailure(result, r, max) == result # "Success" /\ r < max

(* line 204: the guard of the retry arm *)
ShouldRetry(result, r, max) == result = "Conflict" /\ r < max

(* lines 202-210: the match on the result of the write *)
Decide(p) ==
    /\ pc[p] = "decide"
    /\ IF res[p] # "Success" /\ ShouldRetry(res[p], retries[p], max_retries[p])
       THEN /\ retries' = [retries EXCEPT ![p] = @ + 1]
            /\ pc' = [pc EXCEPT ![p] = "sleep"]
       ELSE /\ pc' = [pc EXCEPT ![p] = "return"]
            /\ UNCHANGED retries
    /\ UNCHANGED <<now, storeVars, held, callVars, res, delay_ms, attempts,
                   writes, appended>>
    /\ UNCHANGED projVars

(* lines 206-207: sleep for delay_ms, then double it *)
Sleep(p) ==
    /\ pc[p] = "sleep"
    /\ delay_ms' = [delay_ms EXCEPT ![p] = @ * 2]
    /\ pc' = [pc EXCEPT ![p] = "closure"]
    /\ UNCHANGED <<now, storeVars, held, callVars, res, retries, attempts,
                   writes, appended>>
    /\ UNCHANGED projVars

(* the call has returned: the caller takes the result, the locals of the   *)
(* call are gone                                                           *)
Return(p) ==
    /\ pc[p] = "return"
    /\ pc' = [pc EXCEPT ![p] = "idle"]
    /\ ev' = [ev EXCEPT ![p] = None]
    /\ expected' = [expected EXCEPT ![p] = None]
    /\ expFrom' = [expFrom EXCEPT ![p] = None]
    /\ res' = [res EXCEPT ![p] = "none"]
    /\ mode' = [mode EXCEPT ![p] = "none"]
    /\ fresh' = [fresh EXCEPT ![p] = FALSE]
    /\ retries' = [retries EXCEPT ![p] = 0]
    /\ max_retries' = [max_retries EXCEPT ![p] = 0]
    /\ delay_ms' = [delay_ms EXCEPT ![p] = InitialDelayMs]
    /\ attempts' = [attempts EXCEPT ![p] = 0]
    /\ writes' = [writes EXCEPT ![p] = 0]
    /\ appended' = [appended EXCEPT ![p] = 0]
    /\ UNCHANGED <<now, storeVars, held>>
    /\ UNCHANGED projVars

(* the steps inside a call of write_event_with_version *)
WriteStep(p) ==
    \/ Acquire(p)
    \/ \E ok \in BOOLEAN : LockWrite(p, ok)
    \/ LockContended(p)
    \/ \E ok \in BOOLEAN : CheckVersion(p, ok)
    \/ \E ok \in BOOLEAN : WriteEvent(p, ok)
    \/ Drop(p)
    \/ Return(p)

(* the steps of the loop of write_with_retry *)
RetryStep(p) ==
    \/ \E ok \in BOOLEAN : Operation(p, ok)
    \/ Decide(p)
    \/ Sleep(p)

(* processes that call write_event_with_version *)
Next ==
    \/ Tick
    \/ \E p \in Procs, id \in Ids : GetVersion(p, id)
    \/ \E p \in Procs, req \in Requests, id \in Ids, withVersion \in BOOLEAN :
          CallWrite(p, req, id, withVersion)
    \/ \E p \in Procs : WriteStep(p)

Spec == Init /\ [][Next]_vars

(* process 1 calls write_with_retry, the others write_event_with_version   *)
(* without an expected version                                             *)
NextRetry ==
    \/ Tick
    \/ \E id \in Ids : GetVersion(1, id)
    \/ \E n \in 0..MaxRetries, req \in Requests, id \in Ids, refetch \in BOOLEAN :
          CallRetry(1, n, req, id, refetch)
    \/ \E p \in Procs \ {1}, req \in Requests, id \in Ids : CallWrite(p, req, id, FALSE)
    \/ \E p \in Procs : WriteStep(p) \/ RetryStep(p)

SpecRetry == Init /\ [][NextRetry]_vars

(***************************************************************************)
(* The replay engine (crates/spool/src/state.rs).  A JSON value of an      *)
(* event's payload d is a record that says what kind of value it is; an    *)
(* Option is None or Some(v); d itself is a function from its keys.        *)
(***************************************************************************)
Some(v) == [some |-> v]
Str(s) == [str |-> s]
Null == [null |-> TRUE]
Arr(a) == [arr |-> a]
NoPayload == <<>>

(* d.get(k).and_then(|v| v.as_str()) *)
GetStr(d, k) ==
    IF k \in DOMAIN d /\ "str" \in DOMAIN d[k] THEN Some(d[k].str) ELSE None

(* the strings among the items of an array: filter_map(|v| v.as_str()) *)
RECURSIVE StringsOf(_)
StringsOf(a) ==
    IF a = <<>> THEN <<>>
    ELSE IF "str" \in DOMAIN Head(a) THEN <<Head(a).str>> \o StringsOf(Tail(a))
    ELSE StringsOf(Tail(a))

(* d.get(k).and_then(|v| v.as_array()) with the strings collected *)
GetStrings(d, k) ==
    IF k \in DOMAIN d /\ "arr" \in DOMAIN d[k] THEN Some(StringsOf(d[k].arr)) ELSE None

unwrap_or(o, default) == IF o = None THEN default ELSE o.some

contains(q, x) == \E i \in 1..Len(q) : q[i] = x

(* Vec::retain(|x| x != target) *)
RECURSIVE retain_not(_, _)
retain_not(q, target) ==
    IF q = <<>> THEN <<>>
    ELSE IF Head(q) # target THEN <<Head(q)>> \o retain_not(Tail(q), target)
    ELSE retain_not(Tail(q), target)

(* an event as the replay sees it *)
ReplayEvent(op, id, ts, by, d) ==
    [op |-> op, id |-> id, ts |-> ts, by |-> by, branch |-> "main", d |-> d]

(* lines 140-191: the Task a Create event builds *)
NewTask(event) ==
    [id |-> event.id,
     title |-> unwrap_or(GetStr(event.d, "title"), ""),
     description |-> GetStr(event.d, "description"),
     status |-> "Open",
     priority |-> GetStr(event.d, "priority"),
     tags |-> unwrap_or(GetStrings(event.d, "tags"), <<>>),
     assignee |-> GetStr(event.d, "assignee"),
     created |-> event.ts,
     created_by |-> event.by,
     created_branch |-> event.branch,
     updated |-> event.ts,
     completed |-> None,
     resolution |-> None,
     parent |-> GetStr(event.d, "parent"),
     blocks |-> unwrap_or(GetStrings(event.d, "blocks"), <<>>),
     blocked_by |-> unwrap_or(GetStrings(event.d, "blocked_by"), <<>>),
     comments |-> <<>>,
     archived |-> None,
     stream |-> GetStr(event.d, "stream")]

(* lines 334-347: the Stream a CreateStream event builds *)
NewStream(event) ==
    [id |-> event.id,
     name |-> unwrap_or(GetStr(event.d, "name"), ""),
     description |-> GetStr(event.d, "description"),
     created |-> event.ts,
     created_by |-> event.by]

(* HashMap::entry(k).or_insert(v): the first value stays *)
or_insert(m, k, v) == [x \in DOMAIN m \cup {k} |-> IF x \in DOMAIN m THEN m[x] ELSE v]

(* HashMap::insert *)
insert(m, k, v) == [x \in DOMAIN m \cup {k} |-> IF x = k THEN v ELSE m[x]]

(* HashMap::remove *)
remove(m, k) == [x \in DOMAIN m \ {k} |-> m[x]]

(* lines 196-212 *)
UpdateTask(task, event) ==
    LET d == event.d
        title == GetStr(d, "title")
        desc == GetStr(d, "description")
        priority == GetStr(d, "priority")
        tags == GetStrings(d, "tags")
    IN  [task EXCEPT !.title = IF title # None THEN title.some ELSE @,
                     !.description = IF desc # None THEN desc ELSE @,
                     !.priority = IF priority # None THEN priority ELSE @,
                     !.tags = IF tags # None THEN tags.some ELSE @,
                     !.updated = event.ts]

(* lines 217-224 *)
AssignTask(task, event) ==
    [task EXCEPT !.assignee = GetStr(event.d, "to"), !.updated = event.ts]

(* lines 229-240 *)
CommentTask(task, event) ==
    [task EXCEPT !.comments = Append(@, [ts |-> event.ts, by |-> event.by,
                                         body |-> unwrap_or(GetStr(event.d, "body"), ""),
                                         ref |-> GetStr(event.d, "ref")]),
                 !.updated = event.ts]

(* lines 245-265 *)
LinkTask(task, event) ==
    LET rel == GetStr(event.d, "rel")
        target == GetStr(event.d, "target")
        both == rel # None /\ target # None
    IN  [task EXCEPT
           !.blocks = IF both /\ rel.some = "blocks" /\ ~contains(@, target.some)
                      THEN Append(@, target.some) ELSE @,
           !.blocked_by = IF both /\ rel.some = "blocked_by" /\ ~contains(@, target.some)
                          THEN Append(@, target.some) ELSE @,
           !.parent = IF both /\ rel.some = "parent" THEN target ELSE @,
           !.updated = event.ts]

(* lines 270-286 *)
UnlinkTask(task, event) ==
    LET rel == GetStr(event.d, "rel")
        target == GetStr(event.d, "target")
        both == rel # None /\ target # None
    IN  [task EXCEPT
           !.blocks = IF both /\ rel.some = "blocks" THEN retain_not(@, target.some) ELSE @,
           !.blocked_by = IF both /\ rel.some = "blocked_by"
                          THEN retain_not(@, target.some) ELSE @,
           !.parent = IF both /\ rel.some = "parent" /\ @ = target THEN None ELSE @,
           !.updated = event.ts]

(* lines 291-299 *)
CompleteTask(task, event) ==
    [task EXCEPT !.status = "Complete",
                 !.completed = Some(event.ts),
                 !.resolution = Some(unwrap_or(GetStr(event.d, "resolution"), "done")),
                 !.updated = event.ts]

(* a Reopen arm that leaves the resolution of the last Complete *)
ReopenKeepsResolution(task, event) ==
    [task EXCEPT !.status = "Open", !.completed = None, !.updated = event.ts]

(* lines 304-307 *)
ReopenTask(task, event) ==
    [task EXCEPT !.status = "Open", !.completed = None, !.resolution = None,
                 !.updated = event.ts]

(* lines 312-317 *)
ArchiveTask(task, event) ==
    [task EXCEPT !.archived = GetStr(event.d, "ref"), !.updated = event.ts]

(* lines 322-329 *)
SetStreamTask(task, event) ==
    [task EXCEPT !.stream = GetStr(event.d, "stream"), !.updated = event.ts]

(* lines 351-358 *)
UpdateStream(stream, event) ==
    LET name == GetStr(event.d, "name")
        desc == GetStr(event.d, "description")
    IN  [stream EXCEPT !.name = IF name # None THEN name.some ELSE @,
                       !.description = IF desc # None THEN desc ELSE @]

(* the arm of an operation that changes an existing task *)
TaskArm(task, event) ==
    CASE event.op = "update" -> UpdateTask(task, event)
      [] event.op = "assign" -> AssignTask(task, event)
      [] event.op = "comment" -> CommentTask(task, event)
      [] event.op = "link" -> LinkTask(task, event)
      [] event.op = "unlink" -> UnlinkTask(task, event)
      [] event.op = "complete" -> CompleteTask(task, event)
      [] event.op = "reopen" -> ReopenTask(task, event)
      [] event.op = "archive" -> ArchiveTask(task, event)
      [] event.op = "set_stream" -> SetStreamTask(task, event)

TaskOps == {"update", "assign", "comment", "link", "unlink", "complete", "reopen",
            "archive", "set_stream"}

(* Task::default(), status Open and the epoch as every time *)
DefaultTask ==
    [id |-> "", title |-> "", description |-> None, status |-> "Open",
     priority |-> None, tags |-> <<>>, assignee |-> None, created |-> 0,
     created_by |-> "", created_branch |-> "", updated |-> 0, completed |-> None,
     resolution |-> None, parent |-> None, blocks |-> <<>>, blocked_by |-> <<>>,
     comments |-> <<>>, archived |-> None, stream |-> None]

(* an arm written with tasks.entry(id).or_default() *)
EntryOrDefault(tm, event) ==
    insert(tm, event.id,
           TaskArm(IF event.id \in DOMAIN tm THEN tm[event.id] ELSE DefaultTask, event))

(* an Archive arm that drops the task from the map *)
ArchiveRemoves(tm, event) ==
    IF event.id \notin DOMAIN tm THEN tm
    ELSE IF event.op = "archive" THEN remove(tm, event.id)
    ELSE [tm EXCEPT ![event.id] = TaskArm(@, event)]

(* if let Some(task) = tasks.get_mut(&event.id) { the arm of event.op } *)
GetMutTask(tm, event) ==
    IF event.id \in DOMAIN tm
    THEN [tm EXCEPT ![event.id] = TaskArm(@, event)]
    ELSE tm

(* lines 132-365: one event applied to the two maps *)
apply_event(tm, sm, event) ==
    IF event.op = "create"
    THEN [tasks |-> insert(tm, event.id, NewTask(event)), streams |-> sm]
    ELSE IF event.op \in TaskOps
    THEN [tasks |-> GetMutTask(tm, event), streams |-> sm]
    ELSE IF event.op = "create_stream"
    THEN [tasks |-> tm, streams |-> insert(sm, event.id, NewStream(event))]
    ELSE IF event.op = "update_stream"
    THEN [tasks |-> tm,
          streams |-> IF event.id \in DOMAIN sm
                      THEN [sm EXCEPT ![event.id] = UpdateStream(@, event)]
                      ELSE sm]
    ELSE [tasks |-> tm, streams |-> remove(sm, event.id)]

(* lines 122-130: apply_events *)
RECURSIVE apply_events(_, _, _)
apply_events(tm, sm, evs) ==
    IF evs = <<>> THEN [tasks |-> tm, streams |-> sm]
    ELSE LET next == apply_event(tm, sm, Head(evs))
         IN  apply_events(next.tasks, next.streams, Tail(evs))

(***************************************************************************)
(* Replay of an arbitrary event sequence: the events are applied one by    *)
(* one to maps that start empty; the k-th event carries the k-th time.     *)
(***************************************************************************)
MaxApplied == 4

TaskIds == {"t1", "t2"}
StreamIds == {"s1"}

Payloads(op) ==
    CASE op = "create" ->
           {NoPayload,
            [title |-> Str("A"), tags |-> Arr(<<Str("x"), Null>>), stream |-> Str("s1")]}
      [] op = "update" -> {NoPayload, [title |-> Str("B"), description |-> Str("more")]}
      [] op = "assign" -> {[to |-> Str("bob")], [to |-> Null]}
      [] op = "comment" -> {[body |-> Str("hi")]}
      [] op \in {"link", "unlink"} ->
           {[rel |-> Str("blocks"), target |-> Str("t2")],
            [rel |-> Str("parent"), target |-> Str("t2")]}
      [] op = "complete" -> {NoPayload, [resolution |-> Str("wontfix")]}
      [] op = "archive" -> {[ref |-> Str("1970-01")]}
      [] op = "set_stream" -> {[stream |-> Str("s1")], [stream |-> Null]}
      [] op = "create_stream" -> {[name |-> Str("S")]}
      [] op = "update_stream" -> {[name |-> Str("S2")]}
      [] OTHER -> {NoPayload}

StreamOps == {"create_stream", "update_stream", "delete_stream"}

(* the events a replay can meet at time ts: every task operation on t1,    *)
(* whose payloads vary, and on t2, and the stream operations on a stream   *)
(* id and on a task id                                                     *)
ReplayInputs(ts) ==
    UNION {{ReplayEvent(op, "t1", ts, "@a", d) : d \in Payloads(op)} :
              op \in {"create"} \cup TaskOps}
    \cup {ReplayEvent(op, "t2", ts, "@b", CHOOSE d \in Payloads(op) : TRUE) :
             op \in {"create"} \cup TaskOps}
    \cup {ReplayEvent(op, id, ts, "@a", CHOOSE d \in Payloads(op) : TRUE) :
             op \in StreamOps, id \in {"s1", "t1"}}

concVars == <<now, events, basis, lockFile, pc, held, ev, expected, expFrom, res,
              mode, fresh, retries, max_retries, delay_ms, attempts, writes, appended>>

(* an empty store, nobody writing *)
IdleEmptyStore ==
    /\ events = <<>>
    /\ basis = <<>>
    /\ lockFile = None
    /\ pc = [p \in Procs |-> "idle"]
    /\ held = [p \in Procs |-> NoVersionHeld]
    /\ ev = [p \in Procs |-> None]
    /\ expected = [p \in Procs |-> None]
    /\ expFrom = [p \in Procs |-> None]
    /\ res = [p \in Procs |-> "none"]
    /\ mode = [p \in Procs |-> "none"]
    /\ fresh = [p \in Procs |-> FALSE]
    /\ retries = [p \in Procs |-> 0]
    /\ max_retries = [p \in Procs |-> 0]
    /\ delay_ms = [p \in Procs |-> InitialDelayMs]
    /\ attempts = [p \in Procs |-> 0]
    /\ writes = [p \in Procs |-> 0]
    /\ appended = [p \in Procs |-> 0]

InitApply == now = StartClock /\ IdleEmptyStore /\ NoReplay

(* lines 127-129: one turn of the loop of apply_events *)
ApplyOne(event) ==
    /\ Len(applied) < MaxApplied
    /\ LET next == apply_event(tasks, streams, event)
       IN  /\ tasks' = next.tasks
           /\ streams' = next.streams
    /\ applied' = Append(applied, event)
    /\ UNCHANGED <<concVars, archive, seen, ret,
                   cacheVars>>

NextApply == \E event \in ReplayInputs(StartClock + Len(applied) * TickSecs) : ApplyOne(event)

SpecApply == InitApply /\ [][NextApply]_vars

(***************************************************************************)
(* Vocabulary of the properties.                                           *)
(***************************************************************************)
(* The store on disk, materialize over it and the archival                 *)
(* (src/src/archive.rs).  The clock of this part moves in steps of the     *)
(* default retention, so that completions fall on different days and in    *)
(* different months.                                                       *)
(***************************************************************************)
DefaultDays == 30

MonthName(m) == <<"1970-01", "1970-02", "1970-03", "1970-04">>[m]

(* context.rs 62-75: the archive files in ascending order of their names *)
get_archive_files(arch) == SortedSeq(DOMAIN arch)

(* state.rs 103-112: the events of each file of the list, in turn *)
RECURSIVE FoldFiles(_, _, _)
FoldFiles(st, store, files) ==
    IF files = <<>> THEN st
    ELSE FoldFiles(apply_events(st.tasks, st.streams, store[Head(files)]),
                   store, Tail(files))

EmptyState == [tasks |-> <<>>, streams |-> <<>>]

(* the daily files are read before the archive files *)
materialize_daily_first(arch, evs) ==
    FoldFiles(FoldFiles(EmptyState, evs, get_event_files(evs)),
              arch, get_archive_files(arch))

(* state.rs 99-120 *)
materialize(arch, evs) ==
    FoldFiles(FoldFiles(EmptyState, arch, get_archive_files(arch)),
              evs, get_event_files(evs))

(* the task was completed at or before the cutoff *)
SelectedInclusive(task, cutoff) ==
    /\ task.status = "Complete"
    /\ task.completed # None /\ task.completed.some <= cutoff
    /\ task.archived = None

(* archive.rs 19-23 *)
Selected(task, cutoff) ==
    /\ task.status = "Complete"
    /\ task.completed # None /\ task.completed.some < cutoff
    /\ task.archived = None

(* archive.rs 16-26: the selected tasks in the order of values() of the    *)
(* HashMap, which is unspecified, sorted by completed with a stable sort:  *)
(* every order of the ids that is ascending in completed                   *)
sort_by_key(S, tm) ==
    {q \in [1..Cardinality(S) -> S] :
        /\ \A i, j \in DOMAIN q : i # j => q[i] # q[j]
        /\ \A i, j \in DOMAIN q : i < j => tm[q[i]].completed.some <= tm[q[j]].completed.some}

(* the events of one id in the last daily file only *)
collect_last_file_events(evs, id) ==
    LET files == get_event_files(evs)
    IN  IF files = <<>> THEN <<>>
        ELSE SelectSeq(evs[files[Len(files)]], LAMBDA e : e.id = id)

(* archive.rs 114-128: the events of the daily files of one id, in order *)
collect_all_events(evs, id) ==
    SelectSeq(Concat(evs, get_event_files(evs)), LAMBDA e : e.id = id)

(* archive.rs 66-73: the events of the tasks of one month *)
RECURSIVE EventsOfTasks(_, _)
EventsOfTasks(ids, evs) ==
    IF ids = <<>> THEN <<>>
    ELSE collect_all_events(evs, Head(ids)) \o EventsOfTasks(Tail(ids), evs)

(* archive.rs 43-50 *)
by_month(q, tm, m) == SelectSeq(q, LAMBDA id : MonthOf(tm[id].completed.some) = m)

(* archive.rs 58-75: each month's file is opened for append, created if   *)
(* missing, and gets the events of its tasks                               *)
WriteArchive(arch, q, tm, evs) ==
    LET months == {MonthOf(tm[q[i]].completed.some) : i \in DOMAIN q}
    IN  [m \in DOMAIN arch \cup months |->
            (IF m \in DOMAIN arch THEN arch[m] ELSE <<>>)
            \o (IF m \in months THEN EventsOfTasks(by_month(q, tm, m), evs) ELSE <<>>)]

(* the Archive event names the month of the run, not of the completion *)
ArchiveEventOfThisMonth(task) ==
    ReplayEvent("archive", task.id, now, "@spool",
                [ref |-> Str(MonthName(MonthOf(now)))])

(* archive.rs 91-99 *)
ArchiveEvent(task) ==
    ReplayEvent("archive", task.id, now, "@spool",
                [ref |-> Str(MonthName(MonthOf(task.completed.some)))])

(* nothing is appended to today's file *)
EmitNothing(evs, q, tm) == evs

(* archive.rs 88-104: one Archive event per task, appended to today's file *)
RECURSIVE EmitArchive(_, _, _)
EmitArchive(evs, q, tm) ==
    IF q = <<>> THEN evs
    ELSE EmitArchive(AppendToday(evs, ArchiveEvent(tm[Head(q)])), Tail(q), tm)

(* the lines of all the files of a directory *)
Lines(store) == Concat(store, SortedSeq(DOMAIN store))

(* the retentions the archival is asked for *)
Days == {0, DefaultDays}

(* the daily files hold an event of id *)
Logged(id) == \E i \in 1..Len(Log) : Log[i].id = id

(* what write_event is given, stamped with the time: a Create, of an id of *)
(* the log or of the next id not yet in it, a Complete of a task the       *)
(* caller found (cli.rs 380-397), and one Comment, on the first task        *)
WriteInputs ==
    {ReplayEvent("create", id, now, "@a", NoPayload) :
        id \in {t \in TaskIds : t = "t1" \/ Logged("t1")}}
    \cup {ReplayEvent("complete", id, now, "@a", NoPayload) :
        id \in {t \in TaskIds : Logged(t)}}
    \cup {ReplayEvent("comment", id, now, "@a", [body |-> Str("hi")]) :
        id \in {t \in {"t1"} : Logged(t) /\ \A i \in 1..Len(Log) : Log[i].op # "comment"}}

IsArchiveEvent(e) == e.op = "archive"

(* the clock of this part starts a day later, on the second of January *)
StoreStart == StartClock + SecsPerDay

InitStore == now = StoreStart /\ IdleEmptyStore /\ NoReplay

(* the call builds no State: none is left of the call before it *)
NoState ==
    /\ tasks' = <<>>
    /\ streams' = <<>>
    /\ seen' = <<<<>>, <<>>>>

(* time passes *)
TickDays ==
    /\ now < StoreStart + MaxTicks * DefaultDays * SecsPerDay
    /\ now' = now + DefaultDays * SecsPerDay
    /\ NoState
    /\ ret' = NoCall
    /\ UNCHANGED <<events, basis, lockFile, pc, held, callVars, res, loopVars,
                   writes, appended, applied, archive,
                   cacheVars>>

(* writer.rs 21-37: append the event to today's file *)
write_event(event) ==
    /\ Len(SelectSeq(Log, LAMBDA e : ~IsArchiveEvent(e))) < MaxLog
    /\ events' = AppendToday(events, event)
    /\ NoState
    /\ ret' = [NoCall EXCEPT !.call = "write_event"]
    /\ UNCHANGED <<now, basis, lockFile, pc, held, callVars, res, loopVars,
                   writes, appended, applied, archive,
                   cacheVars>>

(* the files of both directories are read in any order *)
MaterializeInReadDirOrder ==
    /\ \E fa \in sort_by_key(DOMAIN archive, [m \in DOMAIN archive |-> [completed |-> Some(0)]]),
          fe \in sort_by_key(DOMAIN events, [m \in DOMAIN events |-> [completed |-> Some(0)]]) :
          LET state == FoldFiles(FoldFiles(EmptyState, archive, fa), events, fe)
          IN  /\ tasks' = state.tasks
              /\ streams' = state.streams
    /\ seen' = <<archive, events>>
    /\ ret' = [NoCall EXCEPT !.call = "materialize",
                             !.again = (seen = <<archive, events>>)]
    /\ UNCHANGED <<concVars, applied, archive,
                   cacheVars>>

(* state.rs 99-120: materialize, as rebuild and the queries call it *)
Materialize ==
    /\ LET state == materialize(archive, events)
       IN  /\ tasks' = state.tasks
           /\ streams' = state.streams
    /\ seen' = <<archive, events>>
    /\ ret' = [NoCall EXCEPT !.call = "materialize",
                             !.again = (seen = <<archive, events>>)]
    /\ UNCHANGED <<concVars, applied, archive,
                   cacheVars>>

(* the ids the call before returned, when it was an archival of the same  *)
(* retention that went through                                             *)
ReturnedBefore(days) ==
    IF ret.call = "archive_tasks" /\ ~ret.dry_run /\ ret.ok /\ ret.days = days
    THEN ret.ids ELSE <<>>

(* archive.rs 12-112.  emitted is whether lines 78-104 go through: opening *)
(* today's file, get_current_branch and the writes can each fail, and then *)
(* the call returns Err with the archive files already written             *)
archive_tasks(days, dry_run, emitted) ==
    /\ dry_run => emitted
    /\ LET state == materialize(archive, events)
           cutoff == now - days * SecsPerDay
           picked == {id \in DOMAIN state.tasks : Selected(state.tasks[id], cutoff)}
       IN  \E to_archive \in sort_by_key(picked, state.tasks) :
              /\ tasks' = state.tasks
              /\ streams' = state.streams
              /\ seen' = <<archive, events>>
              /\ IF to_archive = <<>> \/ dry_run
                 THEN /\ emitted
                      /\ UNCHANGED <<archive, events>>
                      /\ ret' = [call |-> "archive_tasks", days |-> days,
                                 dry_run |-> dry_run, ok |-> TRUE, ids |-> to_archive, again |-> (seen = <<archive, events>>),
                                 before |-> ReturnedBefore(days)]
                 ELSE /\ Len(Lines(archive)) < MaxLog
                      /\ archive' = WriteArchive(archive, to_archive, state.tasks, events)
                      /\ events' = IF emitted
                                   THEN EmitArchive(events, to_archive, state.tasks)
                                   ELSE events
                      /\ ret' = [call |-> "archive_tasks", days |-> days,
                                 dry_run |-> dry_run, ok |-> emitted,
                                 ids |-> IF emitted THEN to_archive ELSE <<>>, again |-> (seen = <<archive, events>>),
                                 before |-> ReturnedBefore(days)]
    /\ UNCHANGED <<now, basis, lockFile, pc, held, callVars, res, loopVars,
                   writes, appended, applied,
                   cacheVars>>

NextStore ==
    \/ TickDays
    \/ \E event \in WriteInputs : write_event(event)
    \/ Materialize
    \/ \E days \in Days, dry_run \in BOOLEAN, emitted \in BOOLEAN :
          archive_tasks(days, dry_run, emitted)

SpecStore == InitStore /\ [][NextStore]_vars

(***************************************************************************)
(* The validator (crates/spool/src/validation.rs).  In this part the log   *)
(* files hold raw lines, of any content: a blank line, a line that is not  *)
(* JSON, or a JSON object given by its keys and their values.  The value   *)
(* of "ts" is text, as bytes; the other strings are kept whole.            *)
(***************************************************************************)
Num(n) == [num |-> n]
BlankLine == [blank |-> TRUE]
TextLine == [text |-> "not json"]
JsonLine(obj) == [json |-> obj]

(* serde_json::from_str::<Value>(&line) succeeds *)
IsJson(line) == "json" \in DOMAIN line

(* line.trim().is_empty() *)
IsBlank(line) == "blank" \in DOMAIN line

(* event.get(k) of a parsed line *)
Get(line, k) == IF k \in DOMAIN line.json THEN Some(line.json[k]) ELSE None

as_str(o) == IF o # None /\ "str" \in DOMAIN o.some THEN Some(o.some.str) ELSE None

as_u64(o) ==
    IF o # None /\ "num" \in DOMAIN o.some /\ o.some.num >= 0
    THEN Some(o.some.num) ELSE None

(* validation.rs 169 *)
required == <<"v", "op", "id", "ts", "by", "branch", "d">>

(* event.rs and state.rs: the operations serde accepts for "op" *)
Operations == {"create"} \cup TaskOps \cup StreamOps

(* one diagnostic: where it was found, what it says, and about what *)
Diag(dir, file, n, kind, arg) ==
    [dir |-> dir, file |-> file, line |-> n, kind |-> kind, arg |-> arg]

(* validation.rs 168-179: one error per required key the line lacks *)
MissingFields(dir, file, n, line) ==
    LET lacks == SelectSeq(required, LAMBDA k : Get(line, k) = None)
    IN  [i \in DOMAIN lacks |->
            Diag(dir, file, n, "Missing required field", Str(lacks[i]))]

(* validation.rs 181-191 *)
SchemaWarnings(dir, file, n, line) ==
    LET v == as_u64(Get(line, "v"))
    IN  IF v # None /\ v.some # 1
        THEN <<Diag(dir, file, n, "Unknown schema version", Num(v.some))>>
        ELSE <<>>

(* validation.rs 193-215: the warnings of the create tracking *)
CreateWarnings(dir, file, n, line, created_ids) ==
    LET op == as_str(Get(line, "op"))
        id == as_str(Get(line, "id"))
    IN  IF op = None \/ id = None THEN <<>>
        ELSE IF op.some = "create"
        THEN IF id.some \in created_ids
             THEN <<Diag(dir, file, n, "Duplicate create", Str(id.some))>>
             ELSE <<>>
        ELSE IF id.some \notin created_ids
             THEN <<Diag(dir, file, n, "Event before create", Str(id.some))>>
             ELSE <<>>

(* validation.rs 205: created_ids.insert *)
Created(line, created_ids) ==
    LET op == as_str(Get(line, "op"))
        id == as_str(Get(line, "id"))
    IN  IF op # None /\ id # None /\ op.some = "create"
        THEN created_ids \cup {id.some} ELSE created_ids

(* validation.rs 217-227 *)
TimestampErrors(dir, file, n, line) ==
    LET ts == as_str(Get(line, "ts"))
    IN  IF ts # None /\ ~parse_from_rfc3339(ts.some).ok
        THEN <<Diag(dir, file, n, "Invalid timestamp format", [bytes |-> ts.some])>>
        ELSE <<>>

(* validation.rs 142-228: one turn of the loop over the lines of a file;   *)
(* acc holds errors, warnings and created_ids                              *)
validate_line(acc, dir, file, n, line) ==
    IF IsBlank(line) THEN acc
    ELSE IF ~IsJson(line)
    THEN [acc EXCEPT !.errors = Append(@, Diag(dir, file, n, "Invalid JSON", Str("")))]
    ELSE [errors |-> acc.errors \o MissingFields(dir, file, n, line)
                       \o TimestampErrors(dir, file, n, line),
          warnings |-> acc.warnings \o SchemaWarnings(dir, file, n, line)
                       \o CreateWarnings(dir, file, n, line, acc.created_ids),
          created_ids |-> Created(line, acc.created_ids)]

RECURSIVE ValidateLines(_, _, _, _, _)
ValidateLines(acc, dir, file, lines, n) ==
    IF n > Len(lines) THEN acc
    ELSE ValidateLines(validate_line(acc, dir, file, n, lines[n]), dir, file, lines, n + 1)

(* the pass over a file ends at its first line that is not JSON *)
validate_until_bad_line(acc, dir, file, lines) ==
    LET bad == {n \in DOMAIN lines : ~IsBlank(lines[n]) /\ ~IsJson(lines[n])}
        upto == IF bad = {} THEN Len(lines) ELSE CHOOSE n \in bad : \A m \in bad : n <= m
    IN  ValidateLines(acc, dir, file, SubSeq(lines, 1, upto), 1)

(* the ids created are tracked file by file *)
validate_each_file_apart(acc, dir, file, lines) ==
    ValidateLines([acc EXCEPT !.created_ids = {}], dir, file, lines, 1)

(* validation.rs 126-231 *)
validate_event_file(acc, dir, file, lines) == ValidateLines(acc, dir, file, lines, 1)

RECURSIVE ValidateFiles(_, _, _, _)
ValidateFiles(acc, dir, store, files) ==
    IF files = <<>> THEN acc
    ELSE ValidateFiles(validate_event_file(acc, dir, Head(files), store[Head(files)]),
                       dir, store, Tail(files))

(* validation.rs 18-56: the daily files, then the archive files *)
ScanStore(arch, evs) ==
    ValidateFiles(
        ValidateFiles([errors |-> <<>>, warnings |-> <<>>, created_ids |-> {}],
                      "events", evs, get_event_files(evs)),
        "archive", arch, get_archive_files(arch))

(* serde_json::from_str::<Event>(&line): the keys Event declares must all  *)
(* be there with values of their types; other keys are ignored. v is a    *)
(* u32: the numbers the lines here hold all fit                            *)
IsEvent(line) ==
    /\ IsJson(line)
    /\ \A i \in DOMAIN required : Get(line, required[i]) # None
    /\ as_u64(Get(line, "v")) # None
    /\ as_str(Get(line, "op")) # None /\ as_str(Get(line, "op")).some \in Operations
    /\ as_str(Get(line, "id")) # None
    /\ as_str(Get(line, "ts")) # None /\ parse_from_rfc3339(as_str(Get(line, "ts")).some).ok
    /\ as_str(Get(line, "by")) # None
    /\ as_str(Get(line, "branch")) # None

(* the Event of a line that IsEvent *)
ToEvent(line) ==
    [op |-> line.json["op"].str, id |-> line.json["id"].str,
     ts |-> parse_from_rfc3339(line.json["ts"].str).secs,
     by |-> line.json["by"].str, branch |-> line.json["branch"].str,
     d |-> IF "obj" \in DOMAIN line.json["d"] THEN line.json["d"].obj ELSE NoPayload]

(* a read that skips the lines that are not Events *)
parse_skipping_bad_lines(lines) ==
    LET kept == SelectSeq(lines, LAMBDA l : ~IsBlank(l) /\ IsEvent(l))
    IN  Some([i \in DOMAIN kept |-> ToEvent(kept[i])])

(* context.rs 77-91: the events of a file, or None when a line that is not *)
(* blank fails to parse as an Event                                        *)
parse_events_from_file(lines) ==
    LET kept == SelectSeq(lines, LAMBDA l : ~IsBlank(l))
    IN  IF \A i \in DOMAIN kept : IsEvent(kept[i])
        THEN Some([i \in DOMAIN kept |-> ToEvent(kept[i])])
        ELSE None

(* state.rs 99-120 over raw lines: None when a file fails to parse *)
try_materialize(arch, evs) ==
    IF /\ \A f \in DOMAIN arch : parse_events_from_file(arch[f]) # None
       /\ \A g \in DOMAIN evs : parse_events_from_file(evs[g]) # None
    THEN Some(materialize([f \in DOMAIN arch |-> parse_events_from_file(arch[f]).some],
                          [f \in DOMAIN evs |-> parse_events_from_file(evs[f]).some]))
    ELSE None

(* validation.rs 63-86: the warnings about one task *)
OrphanWarnings(task, tm) ==
    LET about(kind, refs) ==
            LET gone == SelectSeq(refs, LAMBDA r : r \notin DOMAIN tm)
            IN  [i \in DOMAIN gone |-> Diag("state", 0, 0, kind, Str(gone[i]))]
    IN  about("non-existent blocked_by", task.blocked_by)
        \o about("non-existent blocks", task.blocks)
        \o (IF task.parent # None /\ task.parent.some \notin DOMAIN tm
            THEN <<Diag("state", 0, 0, "non-existent parent", Str(task.parent.some))>>
            ELSE <<>>)

(* validation.rs 62: for task in state.tasks.values(), in the given order *)
RECURSIVE OrphansOf(_, _)
OrphansOf(order, tm) ==
    IF order = <<>> THEN <<>>
    ELSE OrphanWarnings(tm[Head(order)], tm) \o OrphansOf(Tail(order), tm)

(* the orders values() of a HashMap can take *)
values(tm) == sort_by_key(DOMAIN tm, [id \in DOMAIN tm |-> [completed |-> Some(0)]])

(* validation.rs 17-124: what validate returns; order is the order of      *)
(* values() at line 62                                                     *)
validate(strict, order) ==
    LET scan == ScanStore(archive, events)
        state == IF scan.errors = <<>> THEN try_materialize(archive, events)
                 ELSE Some(EmptyState)
    IN  IF state = None
        THEN [call |-> "validate", strict |-> strict, ok |-> FALSE,
              errors |-> scan.errors, warnings |-> scan.warnings,
              failure |-> [kind |-> "parse", count |-> 0]]
        ELSE LET warnings == scan.warnings
                     \o (IF scan.errors = <<>>
                         THEN OrphansOf(order, state.some.tasks) ELSE <<>>)
             IN  [call |-> "validate", strict |-> strict,
                  ok |-> ~(strict /\ (scan.errors # <<>> \/ warnings # <<>>)),
                  errors |-> scan.errors, warnings |-> warnings,
                  failure |-> IF strict /\ scan.errors # <<>>
                              THEN [kind |-> "errors", count |-> Len(scan.errors)]
                              ELSE IF strict /\ warnings # <<>>
                              THEN [kind |-> "warnings", count |-> Len(warnings)]
                              ELSE [kind |-> "none", count |-> 0]]



(***************************************************************************)
(* Validation of arbitrary log files: lines of any kind are put into the   *)
(* daily and archive files, and validate is called on what is there.       *)
(***************************************************************************)
MaxLines == 3

(* the content of file f of a directory, empty when there is no such file *)
FileOr(store, f) == IF f \in DOMAIN store THEN store[f] ELSE <<>>

Obj(o) == [obj |-> o]

(* a line write_event would write *)
EventLine(op, id, d) ==
    JsonLine([v |-> Num(1), op |-> Str(op), id |-> Str(id),
              ts |-> Str(TsJson(StartClock)), by |-> Str("@a"),
              branch |-> Str("main"), d |-> Obj(d)])

(* the line with key k left out *)
Without(line, k) == JsonLine([x \in DOMAIN line.json \ {k} |-> line.json[x]])

(* the line with key k set to val *)
With(line, k, val) ==
    JsonLine([x \in DOMAIN line.json \cup {k} |-> IF x = k THEN val ELSE line.json[x]])

(* "1970-01-02": a date without a time *)
DateOnly == <<49, 57, 55, 48, 45, 48, 49, 45, 48, 50>>

(* the lines the files are made of: blank, not JSON, well-formed events    *)
(* (one naming a parent that does not exist), and JSON lines with one flaw *)
(* each: an operation Event does not know, a null branch, no "by", schema  *)
(* version 2, a time that is no RFC 3339 time, an id that is a number      *)
LinePalette ==
    {BlankLine, TextLine,
     EventLine("create", "t1", [parent |-> Str("t9")]),
     EventLine("create", "t2", NoPayload),
     EventLine("complete", "t1", NoPayload),
     EventLine("frobnicate", "t1", NoPayload),
     With(EventLine("create", "t1", NoPayload), "branch", Null),
     Without(EventLine("complete", "t2", NoPayload), "by"),
     With(EventLine("create", "t2", NoPayload), "v", Num(2)),
     With(EventLine("complete", "t1", NoPayload), "ts", Str(DateOnly)),
     With(EventLine("create", "t1", NoPayload), "id", Num(7))}

(* the files of the two directories *)
DailyFiles == {1, 2}
ArchiveFiles == {1}

InitValidate == now = StoreStart /\ IdleEmptyStore /\ NoReplay

(* a line is added at the end of a log file, by whatever writes there *)
PutLine(dir, file, line) ==
    /\ Len(Lines(events)) + Len(Lines(archive)) < MaxLines
    /\ IF dir = "events"
       THEN /\ events' = (file :> Append(FileOr(events, file), line)) @@ events
            /\ UNCHANGED archive
       ELSE /\ archive' = (file :> Append(FileOr(archive, file), line)) @@ archive
            /\ UNCHANGED events
    /\ NoState
    /\ ret' = NoCall
    /\ UNCHANGED <<now, basis, lockFile, pc, held, callVars, res, loopVars,
                   writes, appended, applied,
                   cacheVars>>

(* the State validate builds at line 61, when it builds one *)
ValidatedState ==
    IF ScanStore(archive, events).errors = <<>>
    THEN try_materialize(archive, events) ELSE None

(* validation.rs 17-124 *)
Validate(strict) ==
    /\ \E order \in (IF ValidatedState = None THEN {<<>>}
                     ELSE values(ValidatedState.some.tasks)) :
          ret' = validate(strict, order)
    /\ NoState
    /\ UNCHANGED <<now, events, basis, lockFile, pc, held, callVars, res, loopVars,
                   writes, appended, applied, archive,
                   cacheVars>>

NextValidate ==
    \/ \E file \in DailyFiles, line \in LinePalette : PutLine("events", file, line)
    \/ \E file \in ArchiveFiles, line \in LinePalette : PutLine("archive", file, line)
    \/ \E strict \in BOOLEAN : Validate(strict)

SpecValidate == InitValidate /\ [][NextValidate]_vars

(***************************************************************************)
(* The cache files: .state.json and .index.json, rebuild that writes them, *)
(* load_or_materialize_state that reads the first, and the commands of     *)
(* cli.rs that append to the log.                                          *)
(***************************************************************************)
MaxEvents == 3
MaxDays == 1

(* State, as materialize returns it at time at *)
StateAt(st, at) == [tasks |-> st.tasks, streams |-> st.streams, rebuilt |-> at]

(* the fields of Task and Stream that are Options, skipped in JSON when    *)
(* None, and those that are times                                          *)
OptionFields ==
    {"description", "priority", "assignee", "stream", "completed", "resolution",
     "parent", "archived"}

TimeFields == {"created", "updated", "completed"}

(* the fields of Task with #[serde(default)] *)
DefaultFields == {"tags", "blocks", "blocked_by", "comments"}

(* TaskStatus, rename_all = "lowercase" *)
StatusJson(status) == IF status = "Open" THEN "open" ELSE "complete"

StatusFromJson(j) == IF j = "open" THEN "Open" ELSE "Complete"

(* Serialize of Comment *)
CommentJson(c) ==
    [k \in {f \in DOMAIN c : f # "ref" \/ c[f] # None} |->
        IF k = "ref" THEN c[k].some ELSE IF k = "ts" THEN TsJson(c[k]) ELSE c[k]]

(* Deserialize of Comment *)
CommentFromJson(j) ==
    [ts |-> parse_from_rfc3339(j.ts).secs, by |-> j.by, body |-> j.body,
     ref |-> IF "ref" \in DOMAIN j THEN Some(j.ref) ELSE None]

(* one field of a Task or Stream in JSON *)
FieldJson(k, v) ==
    IF k \in TimeFields THEN TsJson(v)
    ELSE IF k = "status" THEN StatusJson(v)
    ELSE IF k = "comments" THEN [i \in DOMAIN v |-> CommentJson(v[i])]
    ELSE v

FieldFromJson(k, j) ==
    IF k \in TimeFields THEN parse_from_rfc3339(j).secs
    ELSE IF k = "status" THEN StatusFromJson(j)
    ELSE IF k = "comments" THEN [i \in DOMAIN j |-> CommentFromJson(j[i])]
    ELSE j

(* Serialize of Task and of Stream: a None is left out *)
StructJson(x) ==
    [k \in {f \in DOMAIN x : f \notin OptionFields \/ x[f] # None} |->
        FieldJson(k, IF k \in OptionFields THEN x[k].some ELSE x[k])]

(* Deserialize of Task and of Stream, whose fields are fields: an Option   *)
(* that is missing is None, a default field that is missing is empty       *)
StructFromJson(j, fields) ==
    [k \in fields |->
        IF k \in OptionFields
        THEN IF k \in DOMAIN j THEN Some(FieldFromJson(k, j[k])) ELSE None
        ELSE IF k \in DefaultFields /\ k \notin DOMAIN j THEN <<>>
        ELSE FieldFromJson(k, j[k])]

TaskFields == DOMAIN DefaultTask

StreamFields == {"id", "name", "description", "created", "created_by"}

(* serde_json::to_string_pretty(&state) *)
to_string_pretty(state) ==
    [tasks |-> [id \in DOMAIN state.tasks |-> StructJson(state.tasks[id])],
     streams |-> [id \in DOMAIN state.streams |-> StructJson(state.streams[id])],
     rebuilt |-> TsJson(state.rebuilt)]

(* serde_json::from_str::<State>(&content) *)
from_str(content) ==
    [tasks |-> [id \in DOMAIN content.tasks |->
                   StructFromJson(content.tasks[id], TaskFields)],
     streams |-> [id \in DOMAIN content.streams |->
                     StructFromJson(content.streams[id], StreamFields)],
     rebuilt |-> parse_from_rfc3339(content.rebuilt).secs]

(* event.ts.format("%Y-%m-%d") *)
DateOf(ts) == SubSeq(DateTimeBytes(ts), 1, 10)

(* state.rs 389-436: one event of a daily file, in build_index *)
IndexEvent(acc, file, event) ==
    LET date == DateOf(event.ts)
        files == insert(acc.task_files, event.id,
                        (IF event.id \in DOMAIN acc.task_files
                         THEN acc.task_files[event.id] ELSE {}) \cup {file})
        known == event.id \in DOMAIN acc.task_info
        info == acc.task_info[event.id]
    IN  [task_files |-> files,
         task_info |->
            IF event.op = "create"
            THEN insert(acc.task_info, event.id,
                        [status |-> "Open", created |-> date, updated |-> date,
                         completed |-> None, archived |-> None])
            ELSE IF ~known THEN acc.task_info
            ELSE IF event.op = "complete"
            THEN insert(acc.task_info, event.id,
                        [info EXCEPT !.status = "Complete", !.updated = date,
                                     !.completed = Some(date)])
            ELSE IF event.op = "reopen"
            THEN insert(acc.task_info, event.id,
                        [info EXCEPT !.status = "Open", !.updated = date,
                                     !.completed = None])
            ELSE IF event.op = "archive"
            THEN insert(acc.task_info, event.id,
                        [info EXCEPT !.updated = date,
                                     !.archived = GetStr(event.d, "ref")])
            ELSE insert(acc.task_info, event.id, [info EXCEPT !.updated = date])]

RECURSIVE IndexEvents(_, _, _)
IndexEvents(acc, file, evs) ==
    IF evs = <<>> THEN acc
    ELSE IndexEvents(IndexEvent(acc, file, Head(evs)), file, Tail(evs))

RECURSIVE IndexFiles(_, _, _)
IndexFiles(acc, evs, files) ==
    IF files = <<>> THEN acc
    ELSE IndexFiles(IndexEvents(acc, Head(files), evs[Head(files)]), evs, Tail(files))

(* state.rs 376-471: the index of the daily files, built at time at *)
build_index(evs, at) ==
    LET built == IndexFiles([task_files |-> <<>>, task_info |-> <<>>], evs,
                            get_event_files(evs))
    IN  [tasks |-> [id \in DOMAIN built.task_info |->
                       [status |-> built.task_info[id].status,
                        created |-> built.task_info[id].created,
                        updated |-> built.task_info[id].updated,
                        completed |-> built.task_info[id].completed,
                        files |-> SortedSeq(built.task_files[id]),
                        archived |-> built.task_info[id].archived]],
         rebuilt |-> at]

(* serde_json::to_string_pretty(&index): TaskIndex holds its dates as      *)
(* strings; a None is left out                                             *)
IndexJson(index) ==
    [tasks |-> [id \in DOMAIN index.tasks |->
                   LET x == index.tasks[id]
                   IN  [k \in {f \in DOMAIN x : f \notin OptionFields \/ x[f] # None} |->
                           IF k \in OptionFields THEN x[k].some
                           ELSE IF k = "status" THEN StatusJson(x[k])
                           ELSE x[k]]],
     rebuilt |-> TsJson(index.rebuilt)]

(* the log is replayed on every load, whether there is a snapshot or not *)
materialize_on_every_load == StateAt(materialize(archive, events), now)

(* state.rs 473-482, of a store whose snapshot file, archive files and     *)
(* daily files are the three given, at time at                             *)
load_state(snapshot, arch, evs, at) ==
    IF snapshot # None THEN from_str(snapshot.some)
    ELSE StateAt(materialize(arch, evs), at)

(* state.rs 473-482 *)
load_or_materialize_state == load_state(state_json, archive, events, now)

InitCache == now = StoreStart /\ IdleEmptyStore /\ NoReplay

(* a day passes *)
TickDay ==
    /\ now < StoreStart + MaxDays * SecsPerDay
    /\ now' = now + SecsPerDay
    /\ NoState
    /\ ret' = NoCall
    /\ UNCHANGED <<events, basis, lockFile, pc, held, callVars, res, loopVars,
                   writes, appended, applied, archive, cacheVars>>

(* state.rs 473-482, called by a reader *)
Load ==
    /\ LET state == load_or_materialize_state
       IN  /\ tasks' = state.tasks
           /\ streams' = state.streams
           /\ ret' = [call |-> "load_or_materialize_state", ok |-> TRUE,
                      rebuilt |-> state.rebuilt]
    /\ seen' = <<<<>>, <<>>>>
    /\ UNCHANGED <<concVars, applied, archive, cacheVars>>

(* only the index is rewritten *)
rebuild_index_only ==
    /\ index_json' = Some(IndexJson(build_index(events, now)))
    /\ UNCHANGED state_json
    /\ ret' = [call |-> "rebuild", ok |-> TRUE]
    /\ NoState
    /\ UNCHANGED <<concVars, applied, archive>>

(* state.rs 484-503 *)
rebuild ==
    /\ index_json' = Some(IndexJson(build_index(events, now)))
    /\ state_json' = Some(to_string_pretty(StateAt(materialize(archive, events), now)))
    /\ ret' = [call |-> "rebuild", ok |-> TRUE]
    /\ NoState
    /\ UNCHANGED <<concVars, applied, archive>>

RECURSIVE AppendAll(_, _)
AppendAll(evs, written) ==
    IF written = <<>> THEN evs
    ELSE AppendAll(AppendToday(evs, Head(written)), Tail(written))

(* a command of cli.rs returns: Err with nothing written when failed, else *)
(* Ok after its write_event calls (writer.rs 21-37) in order               *)
Command(name, failed, written) ==
    /\ IF failed THEN TRUE ELSE Len(Log) + Len(written) <= MaxEvents
    /\ events' = IF failed THEN events ELSE AppendAll(events, written)
    /\ ret' = [call |-> name, ok |-> ~failed]
    /\ NoState
    /\ UNCHANGED <<now, basis, lockFile, pc, held, callVars, res, loopVars,
                   writes, appended, applied, archive, cacheVars>>

(* get_current_user() *)
User == "@a"

(* what generate_id() can return: an id that is in no event yet; the ids   *)
(* are taken in order, from first on                                       *)
NewIds(ids, first) ==
    {id \in ids : ~Logged(id) /\ (id = first \/ Logged(first))}

(* cli.rs 484-523, writer.rs 40-88 *)
add_task(stream, id) ==
    LET failed == /\ stream # None
                  /\ stream.some \notin DOMAIN load_or_materialize_state.streams
        d == IF stream = None THEN [title |-> Str("A")]
             ELSE [title |-> Str("A"), stream |-> Str(stream.some)]
    IN  Command("add_task", failed, <<ReplayEvent("create", id, now, User, d)>>)

(* cli.rs 380-401, writer.rs 151-172 *)
complete_task(id) ==
    LET state == load_or_materialize_state
        failed == IF id \notin DOMAIN state.tasks THEN TRUE
                  ELSE state.tasks[id].status = "Complete"
    IN  Command("complete_task", failed,
                <<ReplayEvent("complete", id, now, User, [resolution |-> Str("done")])>>)

(* cli.rs 403-424, writer.rs 174-187 *)
reopen_task(id) ==
    LET state == load_or_materialize_state
        failed == IF id \notin DOMAIN state.tasks THEN TRUE
                  ELSE state.tasks[id].status = "Open"
    IN  Command("reopen_task", failed,
                <<ReplayEvent("reopen", id, now, User, NoPayload)>>)

(* cli.rs 426-482, writer.rs 103-149 and 212-233: title and stream are the *)
(* options given; description and priority are not given                   *)
update_task(id, title, stream) ==
    LET state == load_or_materialize_state
        failed == IF id \notin DOMAIN state.tasks THEN TRUE
                  ELSE /\ stream # None
                       /\ stream.some # ""
                       /\ stream.some \notin DOMAIN state.streams
        update == IF title = None THEN <<>>
                  ELSE <<ReplayEvent("update", id, now, User,
                                     [title |-> Str(title.some)])>>
        moved == IF stream = None THEN <<>>
                 ELSE <<ReplayEvent("set_stream", id, now, User,
                                    [stream |-> IF stream.some = "" THEN Null
                                                ELSE Str(stream.some)])>>
    IN  Command("update_task", failed, update \o moved)

(* cli.rs 525-541, writer.rs 189-210 *)
assign_task(id, assignee) ==
    Command("assign_task", id \notin DOMAIN load_or_materialize_state.tasks,
            <<ReplayEvent("assign", id, now, User, [to |-> Str(assignee)])>>)

(* cli.rs 543-559 *)
claim_task(id) ==
    Command("claim_task", id \notin DOMAIN load_or_materialize_state.tasks,
            <<ReplayEvent("assign", id, now, User, [to |-> Str(User)])>>)

(* cli.rs 561-577 *)
free_task(id) ==
    Command("free_task", id \notin DOMAIN load_or_materialize_state.tasks,
            <<ReplayEvent("assign", id, now, User, [to |-> Null])>>)

(* cli.rs 580-588, writer.rs 257-287 *)
add_stream(name, id) ==
    Command("add_stream", FALSE,
            <<ReplayEvent("create_stream", id, now, User, [name |-> Str(name)])>>)

(* cli.rs 715-744, writer.rs 290-325: with no name given, update_stream     *)
(* returns "No fields to update"                                           *)
update_stream_cmd(id, name) ==
    LET failed == IF id \notin DOMAIN load_or_materialize_state.streams THEN TRUE
                  ELSE name = None
    IN  Command("update_stream_cmd", failed,
                IF name = None THEN <<>>
                ELSE <<ReplayEvent("update_stream", id, now, User,
                                   [name |-> Str(name.some)])>>)

(* cli.rs 747-778, writer.rs 328-340 *)
delete_stream(id) ==
    LET state == load_or_materialize_state
        failed == IF id \notin DOMAIN state.streams THEN TRUE
                  ELSE \E t \in DOMAIN state.tasks : state.tasks[t].stream = Some(id)
    IN  Command("delete_stream", failed,
                <<ReplayEvent("delete_stream", id, now, User, NoPayload)>>)

(* the streams a command can name *)
StreamChoices == {None} \cup {Some(s) : s \in StreamIds}

NextCache ==
    \/ TickDay
    \/ Load
    \/ rebuild
    \/ \E stream \in StreamChoices, id \in NewIds(TaskIds, "t1") : add_task(stream, id)
    \/ \E id \in TaskIds : complete_task(id)
    \/ \E id \in TaskIds : reopen_task(id)
    \/ \E id \in TaskIds, title \in {None, Some("B")},
          stream \in StreamChoices \cup {Some("")} : update_task(id, title, stream)
    \/ \E id \in TaskIds : assign_task(id, "bob")
    \/ \E id \in TaskIds : claim_task(id)
    \/ \E id \in TaskIds : free_task(id)
    \/ \E id \in NewIds(StreamIds, "s1") : add_stream("S", id)
    \/ \E id \in StreamIds, name \in {None, Some("S2")} : update_stream_cmd(id, name)
    \/ \E id \in StreamIds : delete_stream(id)

SpecCache == InitCache /\ [][NextCache]_vars

(***************************************************************************)
(* Reading arbitrary log files: lines of any kind are put into the daily   *)
(* and archive files, and materialize and build_index are called on what   *)
(* is there.                                                               *)
(***************************************************************************)
(* context.rs 86: the number of the line the read of a file fails at, 0    *)
(* when it does not fail                                                   *)
parse_error_line(lines) ==
    LET bad == {n \in DOMAIN lines : ~IsBlank(lines[n]) /\ ~IsEvent(lines[n])}
    IN  IF bad = {} THEN 0 ELSE CHOOSE n \in bad : \A m \in bad : n <= m

(* the first file of the list whose read fails and the line it fails at,   *)
(* None when every file is read                                            *)
RECURSIVE FirstFailure(_, _, _)
FirstFailure(dir, store, files) ==
    IF files = <<>> THEN None
    ELSE IF parse_error_line(store[Head(files)]) # 0
    THEN Some([dir |-> dir, file |-> Head(files),
               line |-> parse_error_line(store[Head(files)])])
    ELSE FirstFailure(dir, store, Tail(files))

(* state.rs 103-112: the error materialize returns, None when it returns a *)
(* State                                                                   *)
materialize_error(arch, evs) ==
    IF FirstFailure("archive", arch, get_archive_files(arch)) # None
    THEN FirstFailure("archive", arch, get_archive_files(arch))
    ELSE FirstFailure("events", evs, get_event_files(evs))

(* an index built from the archive files and the daily files *)
try_build_index_with_archive(arch, evs, at) ==
    IF /\ \A f \in DOMAIN arch : parse_events_from_file(arch[f]) # None
       /\ \A g \in DOMAIN evs : parse_events_from_file(evs[g]) # None
    THEN LET all == [f \in {<<d, g>> : d \in {0}, g \in DOMAIN arch}
                            \cup {<<d, g>> : d \in {1}, g \in DOMAIN evs} |->
                        IF f[1] = 0 THEN parse_events_from_file(arch[f[2]]).some
                        ELSE parse_events_from_file(evs[f[2]]).some]
             built == IndexFiles([task_files |-> <<>>, task_info |-> <<>>], all,
                                 [i \in 1..Len(get_archive_files(arch)) |->
                                     <<0, get_archive_files(arch)[i]>>]
                                 \o [i \in 1..Len(get_event_files(evs)) |->
                                        <<1, get_event_files(evs)[i]>>])
         IN  Some([tasks |-> [id \in DOMAIN built.task_info |->
                                 [status |-> built.task_info[id].status,
                                  created |-> built.task_info[id].created,
                                  updated |-> built.task_info[id].updated,
                                  completed |-> built.task_info[id].completed,
                                  files |-> SortedSeq({f[2] : f \in {h \in built.task_files[id] : h[1] = 1}}),
                                  archived |-> built.task_info[id].archived]],
                   rebuilt |-> at])
    ELSE None

(* state.rs 376-471 over raw lines, of a store whose archive files and     *)
(* daily files are the two given: None when a daily file fails to parse.   *)
(* Only get_event_files is read                                            *)
try_build_index(arch, evs, at) ==
    IF \A g \in DOMAIN evs : parse_events_from_file(evs[g]) # None
    THEN Some(build_index([g \in DOMAIN evs |-> parse_events_from_file(evs[g]).some], at))
    ELSE None

(* a line write_event would write at time ts *)
EventLineAt(op, id, ts, d) == With(EventLine(op, id, d), "ts", Str(TsJson(ts)))

(* the lines the files are made of: blank, not JSON, JSON that is no Event *)
(* (no "by"), and events of two days: creates of two tasks, a Complete and *)
(* an Archive of the first, and a DeleteStream that carries the id of the  *)
(* first task                                                              *)
ReadPalette ==
    {BlankLine, TextLine,
     Without(EventLine("complete", "t2", NoPayload), "by"),
     EventLine("create", "t1", NoPayload),
     EventLine("create", "t2", NoPayload),
     EventLineAt("complete", "t1", StoreStart, NoPayload),
     EventLineAt("archive", "t1", StoreStart, [ref |-> Str("1970-01")]),
     EventLineAt("delete_stream", "t1", StoreStart, NoPayload)}

(* state.rs 99-120, called on the files as they are *)
ReadState ==
    /\ LET state == try_materialize(archive, events)
       IN  /\ tasks' = IF state = None THEN <<>> ELSE state.some.tasks
           /\ streams' = IF state = None THEN <<>> ELSE state.some.streams
           /\ ret' = [call |-> "materialize", ok |-> state # None,
                      error |-> materialize_error(archive, events)]
    /\ seen' = <<<<>>, <<>>>>
    /\ UNCHANGED <<concVars, applied, archive, cacheVars>>

(* state.rs 376-471, called on the files as they are *)
BuildIndex ==
    /\ LET index == try_build_index(archive, events, now)
       IN  ret' = [call |-> "build_index", ok |-> index # None, index |-> index,
                   error |-> FirstFailure("events", events, get_event_files(events))]
    /\ NoState
    /\ UNCHANGED <<concVars, applied, archive, cacheVars>>

NextRead ==
    \/ \E file \in DailyFiles, line \in ReadPalette : PutLine("events", file, line)
    \/ \E file \in ArchiveFiles, line \in ReadPalette : PutLine("archive", file, line)
    \/ ReadState
    \/ BuildIndex

SpecRead == InitValidate /\ [][NextRead]_vars

(***************************************************************************)
(* some recorded event touches id *)
HasEvent(id) == \E i \in 1..Len(Log) : Log[i].id = id

(* an event of id was appended after the log had n events *)
EventsSince(n, id) == \E i \in (n + 1)..Len(Log) : Log[i].id = id

(* p is between a successful FileLock::acquire and the Drop of that lock *)
Holds(p) == pc[p] \in {"check", "append", "drop"}

(* this step is p's version check coming to a verdict (no read error) *)
Verdict(p) ==
    /\ pc[p] = "check"
    /\ pc'[p] \in {"append", "drop"}
    /\ res'[p] # "FailIO"

(* this step is p's write of the event going through *)
Written(p) ==
    /\ pc[p] = "append"
    /\ pc'[p] = "drop"
    /\ res'[p] # "FailIO"

(* the events touched nothing but one new last line in today's file *)
OneLineAppended(e) ==
    /\ DOMAIN events' = DOMAIN events \cup {Today}
    /\ \A f \in DOMAIN events \ {Today} : events'[f] = events[f]
    /\ events'[Today] = (IF Today \in DOMAIN events THEN events[Today] ELSE <<>>) \o <<e>>

(* p's call passes the version it fetched for the very id it writes *)
WithVersionOfSameId(p) ==
    /\ expected[p] # None
    /\ expFrom[p] # None
    /\ expFrom[p].id = ev[p].id

(* C1: two processes that fetched the same version of an id (from the same  *)
(* log) and both wrote an event of that id with it: never are both events   *)
(* appended.                                                                *)
C1_NoLostUpdate ==
    \A i, j \in 1..Len(basis) :
        ~ /\ i < j
          /\ basis[i].by # basis[j].by
          /\ basis[i].from # None
          /\ basis[i].from = basis[j].from
          /\ Log[i].id = basis[i].from.id
          /\ Log[j].id = basis[i].from.id

(* C2: a write that passes a version of id X fetched before some event of   *)
(* X was appended gets the verdict Conflict, and nothing is appended.       *)
C2_StaleVersionRejected ==
    [][\A p \in Procs :
          (Verdict(p) /\ WithVersionOfSameId(p)
             /\ EventsSince(expFrom[p].at, ev[p].id))
          => (res'[p] = "Conflict" /\ pc'[p] = "drop" /\ events' = events)]_vars

(* C3: a write of a non-create event that passes the version of its id,     *)
(* fetched with no event of that id appended since, passes the version      *)
(* check, and its write returns Success and adds exactly one line at the    *)
(* end of today's file, leaving every other line and file as it was.        *)
C3_FreshVersionAccepted ==
    [][\A p \in Procs :
          (pc[p] \in {"check", "append"} /\ ev[p].op # "create"
             /\ WithVersionOfSameId(p)
             /\ ~EventsSince(expFrom[p].at, ev[p].id))
          => /\ Verdict(p) => (pc'[p] = "append" /\ events' = events)
             /\ Written(p) => (res'[p] = "Success" /\ OneLineAppended(ev[p]))]_vars

C3_Witness ==
    \E p \in Procs :
        /\ pc[p] = "drop" /\ res[p] = "Success" /\ appended[p] = 1
        /\ ev[p].op = "update"
        /\ WithVersionOfSameId(p)
        /\ Log[Len(Log)] = ev[p]
        /\ ~\E i \in (expFrom[p].at + 1)..(Len(Log) - 1) : Log[i].id = ev[p].id

C5_LockReleasedOnExit ==
    [][\A p \in Procs : (Holds(p) /\ ~Holds(p)') => lockFile' = None]_vars

C5_Witness ==
    \E p \in Procs :
        /\ pc[p] = "return"
        /\ res[p] \in {"Conflict"} \cup ErrorValues
        /\ writes[p] = 1
        /\ lockFile = None

(* C6: a create event for an id that has an event in the log gets the       *)
(* verdict Error("already exists"), whatever version was passed, and        *)
(* nothing is appended.                                                     *)
C6_CreateOnExistingRefused ==
    [][\A p \in Procs :
          (Verdict(p) /\ ev[p].op = "create" /\ HasEvent(ev[p].id))
          => (res'[p] = "ErrAlreadyExists" /\ pc'[p] = "drop" /\ events' = events)]_vars

(* C7: a non-create event passed with no expected version, for an id that   *)
(* has an event in the log, gets an Error verdict and nothing is appended.  *)
C7_ConcurrentCreationDetected ==
    [][\A p \in Procs :
          (Verdict(p) /\ ev[p].op # "create" /\ expected[p] = None
             /\ HasEvent(ev[p].id))
          => (res'[p] \in ErrorValues /\ pc'[p] = "drop" /\ events' = events)]_vars

(* C8: a non-create event for an id that has no event in the log gets a     *)
(* "does not exist" Error verdict, with or without an expected version,     *)
(* and nothing is appended.                                                 *)
C8_MissingIdRefused ==
    [][\A p \in Procs :
          (Verdict(p) /\ ev[p].op # "create" /\ ~HasEvent(ev[p].id))
          => /\ res'[p] = (IF expected[p] = None THEN "ErrNotExist"
                           ELSE "ErrNotExistExpected")
             /\ pc'[p] = "drop"
             /\ appended[p] = 0
             /\ events' = events]_vars

C8_Witness ==
    \E p, q \in Procs :
        /\ pc[p] = "return" /\ res[p] = "ErrNotExistExpected" /\ appended[p] = 0
        /\ pc[q] = "return" /\ res[q] = "ErrNotExist" /\ appended[q] = 0
        /\ ~HasEvent(ev[p].id) /\ ~HasEvent(ev[q].id)

(* how far a call of write_with_retry is from returning: the turns of the   *)
(* loop it may still start, then the steps left in the current turn         *)
PcRank ==
    [k \in {"idle", "return", "closure", "sleep", "decide", "drop", "append",
            "check", "lock_write", "lock_read", "acquire"} |->
        CASE k = "idle" -> 0
          [] k = "return" -> 1
          [] k = "closure" -> 2
          [] k = "sleep" -> 3
          [] k = "decide" -> 4
          [] k = "drop" -> 5
          [] k = "append" -> 6
          [] k = "check" -> 7
          [] k \in {"lock_write", "lock_read"} -> 8
          [] OTHER -> 9]

Measure(p) == (max_retries[p] + 1 - attempts[p]) * 10 + PcRank[pc[p]]

(* the bounds of a call of write_with_retry *)
RetryBounds ==
    \A p \in Procs :
        mode[p] = "retry" =>
            /\ attempts[p] <= max_retries[p] + 1
            /\ writes[p] <= attempts[p]
            /\ retries[p] <= max_retries[p]
            /\ (pc[p] = "return" /\ res[p] = "Conflict")
                  => /\ retries[p] = max_retries[p]
                     /\ attempts[p] = max_retries[p] + 1
                     /\ appended[p] = 0

(* C9: a call of write_with_retry runs the closure and starts the write at  *)
(* most max_retries + 1 times; when it returns Conflict it has retried      *)
(* exactly max_retries times and has appended nothing; and it terminates:   *)
(* every step of the call, until it returns, lowers a measure that is       *)
(* never negative.                                                          *)
C9_BoundedRetry ==
    /\ []RetryBounds
    /\ [][\A p \in Procs :
             (mode[p] = "retry" /\ pc[p] # "return" /\ pc'[p] # pc[p])
             => (Measure(p)' < Measure(p) /\ Measure(p)' >= 0)]_vars

C9_Witness ==
    \E p \in Procs :
        /\ mode[p] = "retry" /\ pc[p] = "return" /\ res[p] = "Conflict"
        /\ max_retries[p] = MaxRetries /\ MaxRetries > 0
        /\ retries[p] = max_retries[p]
        /\ attempts[p] = max_retries[p] + 1
        /\ appended[p] = 0

(* C10: write_with_retry runs the closure again, counts a retry or sleeps   *)
(* only when the last write returned Conflict; once a write has returned    *)
(* anything else the call returns it without another attempt or sleep.      *)
C10_RetryOnConflictOnly ==
    [][\A p \in Procs :
          (mode[p] = "retry" /\ mode'[p] = "retry") =>
             /\ (attempts[p] >= 1 /\ attempts'[p] > attempts[p]) => res[p] = "Conflict"
             /\ retries'[p] > retries[p] => res[p] = "Conflict"
             /\ delay_ms'[p] # delay_ms[p] => res[p] = "Conflict"
             /\ res[p] \in (WriteResults \ {"Conflict"}) \cup Failures
                  => /\ pc'[p] \in {"drop", "decide", "return"}
                     /\ attempts'[p] = attempts[p]
                     /\ res'[p] = res[p]]_vars

C10_Witness ==
    \E p \in Procs :
        /\ mode[p] = "retry" /\ pc[p] = "return"
        /\ res[p] \in ErrorValues \cup {"FailLockHeld", "FailIO"}
        /\ max_retries[p] > 0
        /\ attempts[p] = 1 /\ retries[p] = 0 /\ delay_ms[p] = InitialDelayMs

(* this step applies one more event to the maps *)
AppliesEvent == Len(applied') = Len(applied) + 1

(* the event this step applies *)
Applied == applied'[Len(applied')]

(* the resolution a Complete event names, "done" when it names none *)
ResolutionOf(e) ==
    IF "resolution" \in DOMAIN e.d /\ "str" \in DOMAIN e.d["resolution"]
    THEN e.d["resolution"].str ELSE "done"

(* the last three events applied are Complete, Reopen, Complete of task id, *)
(* which existed before them                                                *)
CompleteReopenComplete(id) ==
    LET n == Len(applied)
    IN  /\ n >= 4
        /\ \A k \in (n - 2)..n : applied[k].id = id
        /\ applied[n - 2].op = "complete"
        /\ applied[n - 1].op = "reopen"
        /\ applied[n].op = "complete"
        /\ \E i \in 1..(n - 3) : applied[i].op = "create" /\ applied[i].id = id

(* C13: applied to an existing task, Complete sets status Complete,         *)
(* completed to the event's time and resolution to d.resolution or "done";  *)
(* Reopen sets status Open and clears completed and resolution whatever     *)
(* they were; after Complete, Reopen, Complete the task is Complete with    *)
(* the time and resolution of the last Complete.                            *)
C13_StatusMachine ==
    /\ [][(AppliesEvent /\ Applied.id \in DOMAIN tasks) =>
            LET e == Applied
                after == tasks'[e.id]
            IN  /\ e.op = "complete" =>
                     /\ after.status = "Complete"
                     /\ after.completed = Some(e.ts)
                     /\ after.resolution = Some(ResolutionOf(e))
                /\ e.op = "reopen" =>
                     /\ after.status = "Open"
                     /\ after.completed = None
                     /\ after.resolution = None]_vars
    /\ [](\A id \in TaskIds :
            CompleteReopenComplete(id) =>
               /\ tasks[id].status = "Complete"
               /\ tasks[id].completed = Some(applied[Len(applied)].ts)
               /\ tasks[id].resolution = Some(ResolutionOf(applied[Len(applied)])))

C13_Witness ==
    /\ CompleteReopenComplete("t1")
    /\ ResolutionOf(applied[Len(applied) - 2]) = "wontfix"
    /\ tasks["t1"].resolution = Some("done")
    /\ tasks["t1"].completed = Some(StartClock + 3 * TickSecs)

(* C14: a Create for an id already in the tasks map replaces the entry by   *)
(* the task that event builds on its own: Open, no completed, resolution,   *)
(* comments or archived marker, created = updated = the event's time; the   *)
(* other entries and the streams stay.                                      *)
C14_DuplicateCreateReplaces ==
    [][(AppliesEvent /\ Applied.op = "create" /\ Applied.id \in DOMAIN tasks) =>
         LET e == Applied
             after == tasks'[e.id]
         IN  /\ after = apply_event(<<>>, <<>>, e).tasks[e.id]
             /\ after.status = "Open"
             /\ after.completed = None /\ after.resolution = None
             /\ after.comments = <<>> /\ after.archived = None
             /\ after.created = e.ts /\ after.updated = e.ts
             /\ DOMAIN tasks' = DOMAIN tasks
             /\ \A id \in DOMAIN tasks \ {e.id} : tasks'[id] = tasks[id]
             /\ streams' = streams]_vars

C14_Witness ==
    /\ Len(applied) = 4
    /\ \A k \in 1..4 : applied[k].id = "t1"
    /\ applied[1].op = "create" /\ applied[1].d # NoPayload
    /\ applied[2].op = "comment"
    /\ applied[3].op = "complete"
    /\ applied[4].op = "create" /\ applied[4].d = NoPayload
    /\ tasks["t1"].title = "" /\ tasks["t1"].comments = <<>>
    /\ tasks["t1"].status = "Open" /\ tasks["t1"].tags = <<>>

(* C15: an event of a task operation other than Create for an id that is    *)
(* not in tasks, or UpdateStream or DeleteStream for an id not in streams,  *)
(* changes neither map; the event is consumed and the replay goes on.       *)
C15_UnknownTargetNoOp ==
    [][AppliesEvent =>
         LET e == Applied
         IN  (\/ e.op \in TaskOps /\ e.id \notin DOMAIN tasks
              \/ e.op \in {"update_stream", "delete_stream"} /\ e.id \notin DOMAIN streams)
             => /\ tasks' = tasks
                /\ streams' = streams
                /\ applied' = Append(applied, e)]_vars

C15_Witness ==
    /\ Len(applied) = 4
    /\ applied[1].op = "comment" /\ applied[1].id = "t2"
    /\ applied[2].op = "delete_stream" /\ applied[2].id = "s1"
    /\ applied[3].op = "update_stream" /\ applied[3].id = "s1"
    /\ applied[4].op = "create" /\ applied[4].id = "t1"
    /\ DOMAIN tasks = {"t1"}
    /\ streams = <<>>

(* C16: an id that is a key of tasks stays a key after every event that is  *)
(* applied; Archive on an existing task changes only its archived marker    *)
(* (to d.ref) and its updated time.                                         *)
C16_TasksNeverRemoved ==
    [][AppliesEvent =>
         /\ \A id \in DOMAIN tasks : id \in DOMAIN tasks'
         /\ (Applied.op = "archive" /\ Applied.id \in DOMAIN tasks) =>
               tasks'[Applied.id] =
                  [tasks[Applied.id] EXCEPT !.archived = Some(Applied.d["ref"].str),
                                            !.updated = Applied.ts]]_vars

C16_Witness ==
    /\ Len(applied) = 3
    /\ applied[1].op = "create" /\ applied[1].id = "t1"
    /\ applied[2].op = "archive" /\ applied[2].id = "t1"
    /\ applied[3].op = "delete_stream" /\ applied[3].id = "t1"
    /\ "t1" \in DOMAIN tasks
    /\ tasks["t1"].archived = Some("1970-01")

(* the elements of a sequence *)
Range(q) == {q[i] : i \in DOMAIN q}

(* how many times x occurs in q *)
Count(q, x) == Cardinality({i \in DOMAIN q : q[i] = x})

(* the last call built a State from the store *)
BuiltState == ret.call \in {"materialize", "archive_tasks"}

(* apply_event folded from the left over the first n events of seq *)
RECURSIVE FoldLeft(_, _)
FoldLeft(seq, n) ==
    IF n = 0 THEN [tasks |-> <<>>, streams |-> <<>>]
    ELSE LET prev == FoldLeft(seq, n - 1)
         IN  apply_event(prev.tasks, prev.streams, seq[n])

C12_ReplayOrder ==
    BuiltState =>
       LET seq == Lines(seen[1]) \o Lines(seen[2])
           folded == FoldLeft(seq, Len(seq))
       IN  /\ tasks = folded.tasks
           /\ streams = folded.streams

C12_Witness ==
    /\ ret.call = "materialize"
    /\ Cardinality(DOMAIN archive) = 2
    /\ Cardinality(DOMAIN events) = 3
    /\ \A id \in TaskIds : id \in DOMAIN tasks /\ tasks[id].archived # None

(* C17: archive_tasks(days, _) returns exactly the ids of the materialized *)
(* tasks that are Complete, were completed strictly before now - days and  *)
(* carry no archived marker.                                               *)
C17_ArchivalSelection ==
    (ret.call = "archive_tasks" /\ ret.ok) =>
       Range(ret.ids) =
          {id \in DOMAIN tasks :
              /\ tasks[id].status = "Complete"
              /\ tasks[id].completed # None
              /\ tasks[id].completed.some < now - ret.days * SecsPerDay
              /\ tasks[id].archived = None}

C17_Witness ==
    /\ ret.call = "archive_tasks" /\ ret.ok
    /\ ret.days = DefaultDays
    /\ Len(ret.ids) = 1
    /\ \E id \in DOMAIN tasks :
          /\ tasks[id].status = "Complete" /\ tasks[id].archived = None
          /\ tasks[id].completed = Some(now - DefaultDays * SecsPerDay)

(* C18: a dry run writes no file, and a run that is not dry, called on the *)
(* store the dry run left with the same days, returns the list of ids the  *)
(* dry run returned.                                                       *)
C18_DryRunNoSideEffects ==
    /\ [][(ret'.call = "archive_tasks" /\ ret'.dry_run) =>
             archive' = archive /\ events' = events]_vars
    /\ [][(/\ ret.call = "archive_tasks" /\ ret.dry_run
           /\ ret'.call = "archive_tasks" /\ ~ret'.dry_run /\ ret'.ok
           /\ ret'.days = ret.days) =>
             ret'.ids = ret.ids]_vars

(* C19: of two archivals in a row that are not dry runs, with the same     *)
(* days and nothing written between them, the second returns none of the   *)
(* ids the first returned.                                                 *)
C19_IdempotentArchival ==
    (ret.call = "archive_tasks" /\ ~ret.dry_run /\ ret.ok) =>
       Range(ret.ids) \cap Range(ret.before) = {}

C19_Witness ==
    /\ ret.call = "archive_tasks" /\ ~ret.dry_run /\ ret.ok
    /\ Len(ret.before) = 2
    /\ \A id \in Range(ret.before) : tasks[id].archived # None

(* C20: every event of the daily files is copied at most once into the     *)
(* archive files: an event occurs in them no more often than in the daily  *)
(* files.                                                                  *)
C20_NoDuplicateCopy ==
    \A e \in Range(Lines(archive)) : Count(Lines(archive), e) <= Count(Log, e)

(* q with its first n elements dropped *)
DropFirst(q, n) == SubSeq(q, n + 1, Len(q))

(* p is a prefix of q *)
IsPrefix(p, q) == Len(p) <= Len(q) /\ SubSeq(q, 1, Len(p)) = p

(* this step is an archival that is not a dry run, went through and        *)
(* returned ids                                                            *)
ArchivedSome ==
    /\ ret'.call = "archive_tasks" /\ ~ret'.dry_run /\ ret'.ok
    /\ ret'.ids # <<>>

(* C21: after an archival that is not a dry run returns a non-empty list,  *)
(* today's daily file has gained one Archive event per returned id, in the *)
(* order of the list, whose d.ref is the YYYY-MM of the task's completed   *)
(* time; the archive file of that month exists; and the next materialize   *)
(* shows archived = Some(that YYYY-MM) for every returned id.              *)
C21_ArchivedMarker ==
    [][ArchivedSome =>
         LET ids == ret'.ids
             added == DropFirst(events'[Today], Len(FileOr(events, Today)))
             next == materialize(archive', events')
         IN  /\ Today \in DOMAIN events'
             /\ IsPrefix(FileOr(events, Today), events'[Today])
             /\ Len(added) = Len(ids)
             /\ \A i \in DOMAIN ids :
                  LET month == MonthOf(tasks'[ids[i]].completed.some)
                  IN  /\ added[i].op = "archive"
                      /\ added[i].id = ids[i]
                      /\ added[i].d = [ref |-> Str(MonthName(month))]
                      /\ month \in DOMAIN archive'
                      /\ next.tasks[ids[i]].archived = Some(MonthName(month))]_vars

C21_Witness ==
    /\ ret.call = "archive_tasks" /\ ~ret.dry_run /\ ret.ok
    /\ Len(ret.ids) = 2
    /\ Cardinality(DOMAIN archive) = 2
    /\ LET n == Len(Log)
       IN  /\ Log[n - 1].op = "archive" /\ Log[n].op = "archive"
           /\ Log[n - 1].d # Log[n].d
           /\ MonthOf(now) \notin DOMAIN archive

(* C22: after an archival that is not a dry run, the file of the month of  *)
(* each archived task has gained every event the daily files hold of that  *)
(* task, in log order, and replaying the archive files alone gives the     *)
(* task the fields it had in the State materialized just before.           *)
C22_ArchiveSelfSufficient ==
    [][ArchivedSome =>
         LET alone == FoldLeft(Lines(archive'), Len(Lines(archive')))
         IN  \A id \in Range(ret'.ids) :
                LET month == MonthOf(tasks'[id].completed.some)
                    added == DropFirst(archive'[month], Len(FileOr(archive, month)))
                IN  /\ SelectSeq(added, LAMBDA e : e.id = id)
                         = SelectSeq(Log, LAMBDA e : e.id = id)
                    /\ id \in DOMAIN alone.tasks
                    /\ alone.tasks[id] = tasks'[id]]_vars

C22_Witness ==
    /\ ret.call = "archive_tasks" /\ ~ret.dry_run /\ ret.ok
    /\ Cardinality(DOMAIN events) = 3
    /\ \E id \in Range(ret.ids) :
          /\ tasks[id].created # tasks[id].completed.some
          /\ Cardinality({d \in DOMAIN events : \E i \in DOMAIN events[d] :
                             events[d][i].id = id /\ events[d][i].op # "archive"}) = 2
          /\ Len(SelectSeq(Lines(archive), LAMBDA e : e.id = id)) = 2

(* C23: every step only appends whole lines: each daily file and each      *)
(* archive file is still there after the step, with its content before the *)
(* step as a prefix of its content after.                                  *)
C23_AppendOnly ==
    [][/\ \A f \in DOMAIN events :
            f \in DOMAIN events' /\ IsPrefix(events[f], events'[f])
       /\ \A f \in DOMAIN archive :
            f \in DOMAIN archive' /\ IsPrefix(archive[f], archive'[f])]_vars

C23_Witness ==
    /\ \E f \in DOMAIN archive :
          Len(archive[f]) = 4 /\ archive[f][1] = archive[f][3]
    /\ \E f \in DOMAIN events :
          /\ Len(events[f]) = 3
          /\ events[f][1].op = "archive"
          /\ events[f][3].op = "complete"

(* the places of the lines of the store *)
Positions ==
    {[dir |-> "events", file |-> f, line |-> n] :
        f \in DOMAIN events, n \in 1..MaxLines}
    \cup {[dir |-> "archive", file |-> f, line |-> n] :
        f \in DOMAIN archive, n \in 1..MaxLines}

FileAt(pos) == IF pos.dir = "events" THEN events[pos.file] ELSE archive[pos.file]

(* the places that hold a line *)
LinePositions == {pos \in Positions : pos.line <= Len(FileAt(pos))}

LineAt(pos) == FileAt(pos)[pos.line]

(* the diagnostics about the line at pos, and the others *)
At(diags, pos) ==
    SelectSeq(diags, LAMBDA x : x.dir = pos.dir /\ x.file = pos.file /\ x.line = pos.line)

NotAt(diags, pos) ==
    SelectSeq(diags, LAMBDA x : ~(x.dir = pos.dir /\ x.file = pos.file /\ x.line = pos.line))

OfKind(diags, kind) == SelectSeq(diags, LAMBDA x : x.kind = kind)

(* validate scans the line at p before the line at q *)
ScannedBefore(p, q) ==
    \/ p.dir = "events" /\ q.dir = "archive"
    \/ p.dir = q.dir /\ p.file < q.file
    \/ p.dir = q.dir /\ p.file = q.file /\ p.line < q.line

(* the directory with the line at pos made blank *)
Blanked(dir, store, pos) ==
    IF pos.dir = dir THEN [store EXCEPT ![pos.file][pos.line] = BlankLine] ELSE store

(* C24: validate(ctx, false) returns Ok whatever the log files hold. *)
C24_NonStrictAlwaysSucceeds ==
    (ret.call = "validate" /\ ~ret.strict) => ret.ok

(* C25: validate(ctx, true) returns an error exactly when it has errors or *)
(* warnings; with errors the failure carries the number of errors, with    *)
(* warnings only the number of warnings.                                   *)
C25_StrictMode ==
    (ret.call = "validate" /\ ret.strict) =>
       /\ ~ret.ok <=> (ret.errors # <<>> \/ ret.warnings # <<>>)
       /\ ret.errors # <<>> =>
             ret.failure = [kind |-> "errors", count |-> Len(ret.errors)]
       /\ (ret.errors = <<>> /\ ret.warnings # <<>>) =>
             ret.failure = [kind |-> "warnings", count |-> Len(ret.warnings)]

(* C29: a line that is not blank and not JSON yields exactly one error,    *)
(* "Invalid JSON", and no other diagnostic; the other lines of the file    *)
(* and of the later files get the diagnostics they get with that line      *)
(* blank.                                                                  *)
C29_ValidatorTolerance ==
    ret.call = "validate" =>
       \A pos \in LinePositions :
          (~IsBlank(LineAt(pos)) /\ ~IsJson(LineAt(pos))) =>
             LET others == ScanStore(Blanked("archive", archive, pos),
                                     Blanked("events", events, pos))
             IN  /\ Len(At(ret.errors, pos)) = 1
                 /\ At(ret.errors, pos)[1].kind = "Invalid JSON"
                 /\ At(ret.warnings, pos) = <<>>
                 /\ NotAt(ret.errors, pos) = others.errors
                 /\ ret.warnings = others.warnings

C29_Witness ==
    /\ ret.call = "validate"
    /\ 1 \in DOMAIN events /\ Len(events[1]) = 2 /\ events[1][1] = TextLine
    /\ OfKind(At(ret.errors, [dir |-> "events", file |-> 1, line |-> 2]),
              "Missing required field") # <<>>
    /\ \E i \in DOMAIN ret.warnings : ret.warnings[i].dir = "archive"

(* C30: in one pass, a create line whose id an earlier line of the pass    *)
(* created yields exactly one duplicate-create warning; a line of another  *)
(* operation whose id no earlier line created yields exactly one           *)
(* before-create warning; every other line yields neither.                 *)
C30_CreateTracking ==
    ret.call = "validate" =>
       \A pos \in LinePositions :
          LET line == LineAt(pos)
          IN  (IsJson(line) /\ as_str(Get(line, "op")) # None
                            /\ as_str(Get(line, "id")) # None) =>
                 LET created ==
                        \E p \in LinePositions :
                           /\ ScannedBefore(p, pos)
                           /\ IsJson(LineAt(p))
                           /\ Get(LineAt(p), "op") = Some(Str("create"))
                           /\ as_str(Get(LineAt(p), "id")) = as_str(Get(line, "id"))
                     create == as_str(Get(line, "op")).some = "create"
                     mine == At(ret.warnings, pos)
                 IN  /\ Len(OfKind(mine, "Duplicate create"))
                           = IF create /\ created THEN 1 ELSE 0
                     /\ Len(OfKind(mine, "Event before create"))
                           = IF ~create /\ ~created THEN 1 ELSE 0

C30_Witness ==
    /\ ret.call = "validate"
    /\ Len(OfKind(ret.warnings, "Event before create")) = 1
    /\ Len(OfKind(ret.warnings, "Duplicate create")) = 1
    /\ OfKind(ret.warnings, "Duplicate create")[1].dir = "archive"
    /\ Len(Lines(events)) = 2
    /\ \A i \in 1..2 : as_str(Get(Lines(events)[i], "id")) = Some("t1")

(* a State or an Index without its rebuilt time *)
IgnoringRebuilt(x) == [k \in DOMAIN x \ {"rebuilt"} |-> x[k]]

(* what load_or_materialize_state returns is materialize of the log as it  *)
(* is now, but for rebuilt                                                 *)
LoadIsCurrent ==
    IgnoringRebuilt(load_or_materialize_state)
        = IgnoringRebuilt(StateAt(materialize(archive, events), now))

(* the State the last call, a load, returned *)
Loaded == [tasks |-> tasks, streams |-> streams, rebuilt |-> ret.rebuilt]

(* C26: when .state.json exists, load_or_materialize_state returns the     *)
(* State its content holds, whatever the log holds by now; when it does    *)
(* not exist, it returns materialize of the log.                           *)
C26_SnapshotTrusted ==
    ret.call = "load_or_materialize_state" =>
       IF state_json # None
       THEN to_string_pretty(Loaded) = state_json.some
       ELSE Loaded = StateAt(materialize(archive, events), now)

C26_Witness ==
    /\ ret.call = "load_or_materialize_state"
    /\ state_json # None
    /\ tasks # materialize(archive, events).tasks
    /\ \E id \in DOMAIN tasks : tasks[id].status = "Complete"

(* C27: a rebuild leaves in .index.json the index of the daily files and   *)
(* in .state.json materialize of the log of that moment, but for rebuilt,  *)
(* so that a load returns materialize of the log; and only rebuild changes *)
(* a cache file, so that this stays so until the log changes.              *)
C27_RebuildRefreshes ==
    [][/\ (ret'.call = "rebuild" /\ ret'.ok) =>
             /\ state_json' # None /\ index_json' # None
             /\ IgnoringRebuilt(from_str(state_json'.some))
                   = IgnoringRebuilt(StateAt(materialize(archive, events), now))
             /\ IgnoringRebuilt(index_json'.some)
                   = IgnoringRebuilt(IndexJson(build_index(events, now)))
             /\ DOMAIN index_json'.some.tasks
                   = {Log[i].id : i \in {j \in DOMAIN Log : Log[j].op = "create"}}
             /\ \A id \in DOMAIN index_json'.some.tasks :
                   index_json'.some.tasks[id].files
                      = SortedSeq({f \in DOMAIN events :
                                      \E i \in DOMAIN events[f] : events[f][i].id = id})
             /\ IgnoringRebuilt(load_state(state_json', archive', events', now'))
                   = IgnoringRebuilt(StateAt(materialize(archive', events'), now'))
       /\ cacheVars' # cacheVars => ret'.call = "rebuild"]_vars

C27_Witness ==
    /\ ret.call = "rebuild"
    /\ state_json # None /\ index_json # None
    /\ DOMAIN state_json.some.streams # {}
    /\ \E id \in DOMAIN index_json.some.tasks :
          /\ Len(index_json.some.tasks[id].files) = 2
          /\ "completed" \in DOMAIN index_json.some.tasks[id]

(* the commands of cli.rs that write events *)
MutatingCommands ==
    {"add_task", "update_task", "complete_task", "reopen_task", "assign_task",
     "claim_task", "free_task", "add_stream", "update_stream_cmd", "delete_stream"}

(* C28: after a mutating command of the CLI that succeeded, in any store   *)
(* state, the next load_or_materialize_state returns materialize of the    *)
(* log as it is then.                                                      *)
C28_ReadsSeeMutation ==
    [][(ret'.call \in MutatingCommands /\ ret'.ok) => LoadIsCurrent']_vars

(* C37: in every State a replay of any event sequence reaches, each task   *)
(* has status Complete exactly when completed is set, and exactly when     *)
(* resolution is set.                                                      *)
C37_CompletionFieldsTogether ==
    \A id \in DOMAIN tasks :
        /\ tasks[id].status = "Complete" <=> tasks[id].completed # None
        /\ tasks[id].completed # None <=> tasks[id].resolution # None

C37_Witness ==
    /\ Len(applied) = 4
    /\ applied[1].op = "create" /\ applied[2].op = "create"
    /\ applied[1].id # applied[2].id
    /\ applied[3].op = "complete" /\ applied[3].id = applied[1].id
    /\ applied[4].op = "update" /\ applied[4].id = applied[1].id
    /\ tasks[applied[1].id].resolution = Some("wontfix")
    /\ tasks[applied[2].id].status = "Open"

(* the log as it was when it held n lines: under Spec lines are only ever  *)
(* appended to the newest file                                             *)
LogAt(n) == SubSeq(Log, 1, n)

Touching(log, id) == {i \in 1..Len(log) : log[i].id = id}

MostRecent(log, id) == log[CHOOSE i \in Touching(log, id) : \A j \in Touching(log, id) : j <= i]

(* C36: a version looked up with get_task_version is absent exactly when   *)
(* no event of the log at that moment has the id; otherwise its ts and     *)
(* last_event_hash are those of the last such event of the log (the last   *)
(* line of the latest file holding one); and two lookups of one id on the  *)
(* same log give the same hash.                                            *)
C36_VersionLookup ==
    /\ \A p \in Procs :
          held[p].id # "none" =>
              LET log == LogAt(held[p].at)
              IN  IF Touching(log, held[p].id) = {}
                  THEN held[p].v = None
                  ELSE /\ held[p].v # None
                       /\ LET last == MostRecent(log, held[p].id)
                          IN  /\ held[p].v.ts = to_rfc3339(last.ts)
                              /\ held[p].v.last_event_hash = EventHash[last]
    /\ \A p, q \in Procs :
          (held[p].id # "none" /\ held[p].id = held[q].id /\ held[p].at = held[q].at)
              => held[p].v = held[q].v

(* one process holds the version of t1, whose latest event is the last     *)
(* line of the second daily file, and the other has looked up an id that   *)
(* no event has                                                            *)
C36_Witness ==
    /\ Cardinality(DOMAIN events) = 2
    /\ \E p, q \in Procs :
          /\ held[p].id = "t1" /\ held[p].at = Len(Log) /\ held[p].v # None
          /\ Log[Len(Log)].id = "t1"
          /\ Len(events[Today]) >= 1
          /\ held[q].id = "t2" /\ held[q].v = None

(* the time recorded in a lock file: what follows "pid:", when it is a     *)
(* time                                                                    *)
RecordedTime(content) ==
    LET rest == RestAfterFirstColon(content)
    IN  IF rest = None THEN [ok |-> FALSE, secs |-> 0]
        ELSE parse_from_rfc3339(trim(rest))

(* C35: when acquire finds a lock file whose recorded time is at most 60   *)
(* seconds old it fails at once and leaves the lock file as it is; when    *)
(* the recorded time is more than 60 seconds old it removes the lock file  *)
(* and starts the acquisition again.                                       *)
C35_LockContentionSteps ==
    [][\A p \in Procs :
          (/\ pc[p] = "lock_read" /\ pc'[p] # "lock_read"
           /\ lockFile # None /\ RecordedTime(lockFile.content).ok)
          => IF now - RecordedTime(lockFile.content).secs <= StaleSecs
             THEN /\ res'[p] = "FailLockHeld" /\ pc'[p] = "return"
                  /\ lockFile' = lockFile
             ELSE /\ lockFile' = None /\ pc'[p] = "acquire"]_vars

(* the tasks of a State whose stream is s *)
Referencing(state, s) == {t \in DOMAIN state.tasks : state.tasks[t].stream = Some(s)}

(* a DeleteStream event of s is recorded *)
StreamDeleted(s) == \E i \in 1..Len(Log) : Log[i].op = "delete_stream" /\ Log[i].id = s

(* C34: a delete_stream command fails and appends nothing when a task of   *)
(* the store refers to the stream, and so no task of the materialized      *)
(* State ever refers to a stream that a DeleteStream event removed.        *)
C34_StreamDeletionGuard ==
    /\ [][(ret'.call = "delete_stream" /\ events' # events)
             => Referencing(materialize(archive, events), Log'[Len(Log')].id) = {}]_vars
    /\ [](\A s \in StreamIds :
             (StreamDeleted(s) /\ s \notin DOMAIN materialize(archive, events).streams)
             => Referencing(materialize(archive, events), s) = {})

(* C38: the State materialized right after an archival that is not a dry  *)
(* run has the tasks and streams of the State materialized right before    *)
(* it, and every field of every task is the same, except archived and      *)
(* updated of the tasks the archival returned.                             *)
C38_ArchivalPreservesProjection ==
    [][(ArchivedSome /\ events' # events) =>
         LET before == materialize(archive, events)
             after == materialize(archive', events')
         IN  /\ after.streams = before.streams
             /\ DOMAIN after.tasks = DOMAIN before.tasks
             /\ \A id \in DOMAIN before.tasks :
                  IF id \in Range(ret'.ids)
                  THEN [after.tasks[id] EXCEPT !.archived = before.tasks[id].archived,
                                               !.updated = before.tasks[id].updated]
                           = before.tasks[id]
                  ELSE after.tasks[id] = before.tasks[id]]_vars

(* an archival returned a task that has a comment and left another task    *)
(* alone; the archive holds the comment event, which the daily log holds   *)
(* too                                                                     *)
C38_Witness ==
    /\ ret.call = "archive_tasks" /\ ~ret.dry_run /\ ret.ok
    /\ ret.ids = <<"t1">>
    /\ Len(tasks["t1"].comments) = 1
    /\ "t2" \in DOMAIN tasks
    /\ \E i \in DOMAIN Lines(archive) : Lines(archive)[i].op = "comment"
    /\ Len(materialize(archive, events).tasks["t1"].comments) = 1
    /\ materialize(archive, events).tasks["t1"].archived # None

(* the line serde_json::to_string(&event) writes, as from_str reads it back *)
written_line(event) ==
    JsonLine([v |-> Num(1), op |-> Str(event.op), id |-> Str(event.id),
              ts |-> Str(TsJson(event.ts)), by |-> Str(event.by),
              branch |-> Str(event.branch), d |-> Obj(event.d)])

(* the files of a directory as the lines written for their events *)
WrittenStore(store) ==
    [f \in DOMAIN store |-> [i \in DOMAIN store[f] |-> written_line(store[f][i])]]

(* validate (validation.rs 17-124) on a store of written events reports no *)
(* error and no warning                                                    *)
ValidatesCleanly(arch, evs) ==
    LET scan == ScanStore(WrittenStore(arch), WrittenStore(evs))
        state == try_materialize(WrittenStore(arch), WrittenStore(evs))
    IN  /\ scan.errors = <<>>
        /\ scan.warnings = <<>>
        /\ state # None
        /\ \A id \in DOMAIN state.some.tasks :
              OrphanWarnings(state.some.tasks[id], state.some.tasks) = <<>>

(* C39: when validate reports no error and no warning on a store, it still *)
(* reports none after an archival of that store that is not a dry run.     *)
C39_ArchivalKeepsStoreValid ==
    [][(ArchivedSome /\ events' # events /\ ValidatesCleanly(archive, events))
          => ValidatesCleanly(archive', events')]_vars

(* every event of the log is one a writer function gives for an entity   *)
(* that exists when it is written: a Create or CreateStream, a stream      *)
(* operation on a stream of the State so far, a task operation on a task   *)
(* of the State so far                                                     *)
WrittenForExisting ==
    \A i \in 1..Len(Log) :
        LET so_far == FoldLeft(Log, i - 1)
        IN  IF Log[i].op \in {"create", "create_stream"} THEN TRUE
            ELSE IF Log[i].op \in StreamOps THEN Log[i].id \in DOMAIN so_far.streams
            ELSE Log[i].id \in DOMAIN so_far.tasks

(* C40: a log that holds only events the writer functions produced, each   *)
(* for an entity that existed when it was written, gets no error and no    *)
(* warning from validate.                                                  *)
C40_WriterOutputValidates ==
    WrittenForExisting => ValidatesCleanly(archive, events)

(* the files of both directories, as sequences of lines *)
AllFiles == {archive[f] : f \in DOMAIN archive} \cup {events[g] : g \in DOMAIN events}

(* a line that is not blank and is no Event *)
BadLine(line) == ~IsBlank(line) /\ ~IsEvent(line)

HasBadLine(lines) == \E n \in DOMAIN lines : BadLine(lines[n])

(* C33: parse_events_from_file returns no events when the file has a line  *)
(* that is not blank and is no Event, and the error is at the first such   *)
(* line; otherwise it returns the Events of the lines that are not blank,  *)
(* in order.  materialize fails when a file of either directory fails, at  *)
(* the first such file in its reading order, and returns no State;         *)
(* build_index fails when a daily file fails and returns no Index.         *)
C33_FailFastReads ==
    /\ \A lines \in AllFiles :
          IF HasBadLine(lines)
          THEN /\ parse_events_from_file(lines) = None
               /\ BadLine(lines[parse_error_line(lines)])
               /\ \A n \in 1..(parse_error_line(lines) - 1) : ~BadLine(lines[n])
          ELSE /\ parse_events_from_file(lines) # None
               /\ parse_events_from_file(lines).some
                    = LET kept == SelectSeq(lines, LAMBDA l : ~IsBlank(l))
                      IN  [n \in DOMAIN kept |-> ToEvent(kept[n])]
    /\ ret.call = "materialize" =>
          /\ ret.ok <=> \A lines \in AllFiles : ~HasBadLine(lines)
          /\ ~ret.ok => /\ tasks = <<>> /\ streams = <<>>
                        /\ ret.error # None
                        /\ (\E f \in DOMAIN archive : HasBadLine(archive[f]))
                              => ret.error.some.dir = "archive"
          /\ ret.ok => ret.error = None
    /\ ret.call = "build_index" =>
          /\ ret.ok <=> \A g \in DOMAIN events : ~HasBadLine(events[g])
          /\ ~ret.ok => /\ ret.index = None
                        /\ ret.error # None
                        /\ \A g \in DOMAIN events :
                              g < ret.error.some.file => ~HasBadLine(events[g])
          /\ ret.ok => ret.index # None

(* materialize failed on a store whose first two lines are good events and *)
(* whose last daily line, after a blank line, is not JSON                  *)
C33_Witness ==
    /\ ret.call = "materialize" /\ ~ret.ok
    /\ \E g \in DOMAIN events :
          /\ Len(events[g]) = 3
          /\ IsEvent(events[g][1]) /\ IsBlank(events[g][2]) /\ events[g][3] = TextLine
          /\ ret.error = Some([dir |-> "events", file |-> g, line |-> 3])

(* the ids of the daily files' events, the files that hold each, and the   *)
(* ids that have a Create there                                            *)
DailyEvents(g) == parse_events_from_file(events[g]).some

DailyFilesOf(id) ==
    {g \in DOMAIN events : \E n \in DOMAIN DailyEvents(g) : DailyEvents(g)[n].id = id}

DailyCreated ==
    {id \in TaskIds : \E g \in DOMAIN events : \E n \in DOMAIN DailyEvents(g) :
         DailyEvents(g)[n].id = id /\ DailyEvents(g)[n].op = "create"}

(* C32: the Index build_index returns is the one it returns for the same   *)
(* daily files with no archive file at all; its entries are the ids with a *)
(* Create in the daily files, so an id with events in archive files only   *)
(* has none; and each entry's files are the daily files holding an event   *)
(* of the id, in ascending order.                                          *)
C32_IndexFromDailyOnly ==
    (ret.call = "build_index" /\ ret.ok) =>
        /\ ret.index = try_build_index(<<>>, events, now)
        /\ DOMAIN ret.index.some.tasks = DailyCreated
        /\ \A id \in DOMAIN ret.index.some.tasks :
              ret.index.some.tasks[id].files = SortedSeq(DailyFilesOf(id))

(* an Index was built of a store whose archive file creates t2 and whose   *)
(* two daily files each hold an event of t1: t1 alone has an entry         *)
C32_Witness ==
    /\ ret.call = "build_index" /\ ret.ok
    /\ \E f \in DOMAIN archive : archive[f] = <<EventLine("create", "t2", NoPayload)>>
    /\ DOMAIN ret.index.some.tasks = {"t1"}
    /\ ret.index.some.tasks["t1"].files = <<1, 2>>

(* C31: every id of the Index build_index returns is a task of the State   *)
(* materialize returns for the same store, and the entry's status,         *)
(* archived marker and created, updated and completed dates are those of   *)
(* the task's fields.                                                      *)
C31_IndexAgreesWithState ==
    (ret.call = "build_index" /\ ret.ok /\ try_materialize(archive, events) # None) =>
        LET state == try_materialize(archive, events).some
        IN  \A id \in DOMAIN ret.index.some.tasks :
               /\ id \in DOMAIN state.tasks
               /\ LET entry == ret.index.some.tasks[id]
                      task == state.tasks[id]
                  IN  /\ entry.status = task.status
                      /\ entry.archived = task.archived
                      /\ entry.created = DateOf(task.created)
                      /\ entry.updated = DateOf(task.updated)
                      /\ entry.completed = IF task.completed = None THEN None
                                           ELSE Some(DateOf(task.completed.some))

====
